---- MODULE Spec2Model ----
(***************************************************************************)
(* Entity/Collection membership cache and synchronisation layer of the     *)
(* workspace dashboard: the Collection Registry (CollectionsState), the    *)
(* Entity Cache (EntitiesState) and the remote store gateway               *)
(* (SupabaseService), modelled as state machines over a small store.       *)
(***************************************************************************)
EXTENDS Integers, Sequences, FiniteSets, TLC

(* ---------------------------------------------------------------- bounds *)
\* number of collections create_collection may add (uuid4 ids drawn from a pool)
MaxNewCollections == 1
\* number of entities create_entity may add (uuid4 ids drawn from a pool)
MaxNewEntities == 2
\* number of series the TimeDB API may list
MaxSeries == 1
\* number of gateway calls that may raise in one behaviour
MaxFaults == 1
\* number of sessions holding their own registry copy
MaxSessions == 3
\* number of concurrent first-time callers of _load_entities_from_db
MaxCallers == 2

(* ------------------------------------------------------------- id pools *)
CollectionUuidPool == <<"col-uuid-1", "col-uuid-2", "col-uuid-3">>
EntityUuidPool == <<"ent-uuid-1", "ent-uuid-2", "ent-uuid-3", "ent-uuid-4">>
SeriesPool == <<"series-1", "series-2", "series-3">>

Min(a, b) == IF a < b THEN a ELSE b

NewCollectionIds ==
  {CollectionUuidPool[i] : i \in 1..Min(MaxNewCollections, Len(CollectionUuidPool))}
NewEntityIds ==
  {EntityUuidPool[i] : i \in 1..Min(MaxNewEntities, Len(EntityUuidPool))}
SeriesIds == {SeriesPool[i] : i \in 1..Min(MaxSeries, Len(SeriesPool))}

BootstrapCollectionIds == {"default-timeseries", "esett-data"}
CollectionIds == BootstrapCollectionIds \cup NewCollectionIds

(* ------------------------------------------------------------ sequences *)
Range(s) == {s[i] : i \in DOMAIN s}

RECURSIVE IndexOfId(_, _, _)
\* first index i >= from with s[i].id = id, 0 when there is none
IndexOfId(s, id, from) ==
  IF from > Len(s) THEN 0
  ELSE IF s[from].id = id THEN from
  ELSE IndexOfId(s, id, from + 1)

ReplaceAt(s, i, x) == [s EXCEPT ![i] = x]

(***************************************************************************)
(* Remote store: the tables workspaces, collections, entities and          *)
(* collection_entities, each kept in insertion order.                      *)
(***************************************************************************)
VARIABLES
  configured,      \* is_supabase_configured()
  dbWorkspace,     \* TRUE when get_workspace("rebase-energy") returns a row
  dbCollections,   \* Seq of collection rows
  dbEntities,      \* Seq of entity rows [id, entity_type, name]
  dbMembership     \* Seq of [collection_id, entity_id]

(***************************************************************************)
(* One session's CollectionsState and EntitiesState.                       *)
(***************************************************************************)
VARIABLES
  workspace_loaded,       \* WorkspaceState._workspace_loaded
  default_collection_id,  \* WorkspaceState.default_collection_id
  collections,            \* _collections
  collections_loaded,     \* _collections_loaded
  selected_collection_id,
  time_series_entities,   \* _time_series_entities: collection id -> Seq of entities
  site_entities,          \* _site_entities
  asset_entities,         \* _asset_entities
  entities_loaded,        \* _entities_loaded
  selected_object_type

(* several sessions, each with its own CollectionsState, over one store *)
VARIABLES
  sessions         \* session -> [colls: _collections, loaded: _collections_loaded]

(* concurrent callers of _load_entities_from_db on one cache *)
VARIABLES
  callers          \* caller -> [pc, sawUnloaded, observed]

(* direct callers of the membership operations of SupabaseService *)
VARIABLES
  membershipCall,  \* the last membership operation, its arguments and result
  replace          \* a set_collection_entities call between its two statements

(* the search box of the collection page *)
VARIABLES
  search           \* [items, query, result, shown]

(* history: the last command, its reported outcome and what its persist did *)
VARIABLES
  lastOp,
  lastLoad,        \* what _load_entities_from_db did in the last command
  faults,          \* gateway calls that have raised so far
  fetches          \* remote fetches since the last invalidation

vars ==
  <<configured, dbWorkspace, dbCollections, dbEntities, dbMembership,
    workspace_loaded, default_collection_id, collections, collections_loaded,
    selected_collection_id,
    time_series_entities, site_entities, asset_entities, entities_loaded,
    selected_object_type, sessions, callers, membershipCall, replace, search,
    lastOp, lastLoad, faults, fetches>>

storeVars == <<configured, dbWorkspace, dbCollections, dbEntities, dbMembership>>
registryVars == <<collections, collections_loaded, selected_collection_id>>
gatewayVars == <<membershipCall, replace>>
otherVars == <<sessions, callers, gatewayVars, search, default_collection_id>>
cacheVars ==
  <<time_series_entities, site_entities, asset_entities, entities_loaded,
    selected_object_type, fetches>>

(***************************************************************************)
(* Gateway calls.  Every SupabaseService call may raise; a handler's input *)
(* fail names the gateway call of the handler that raises (0: none does).  *)
(***************************************************************************)
NoFail == 0

\* get_workspace with the configuration check left out
get_workspace_unchecked == dbWorkspace

\* SupabaseService.get_workspace("rebase-energy") returns a row: None when
\* the store is not configured
get_workspace == configured /\ dbWorkspace

\* outcome of one persist helper: "ok" the store holds the write, "failed" a
\* gateway call raised and the helper swallowed it, "skipped" the helper
\* returned early because no workspace row exists, "none" nothing to persist;
\* Overall is the outcome of a handler that called several helpers
Overall(statuses) ==
  IF "failed" \in Range(statuses) THEN "failed"
  ELSE IF "skipped" \in Range(statuses) THEN "skipped"
  ELSE IF "ok" \in Range(statuses) THEN "ok"
  ELSE "none"

(* ------------------------------------------- SupabaseService.collections *)
\* upsert_collection: get_collection, then update_collection or create_collection
upsert_collection(tbl, collection_id, data) ==
  LET i == IndexOfId(tbl, collection_id, 1)
      row == [data EXCEPT !.id = collection_id]
  IN IF i > 0 THEN ReplaceAt(tbl, i, row) ELSE Append(tbl, row)

\* gateway calls of _save_collection_to_db: get_workspace, get_collection,
\* update_collection / create_collection
SaveCollectionCalls == 3

\* _save_collection_to_db: persist the registry entry collection_id
save_collection_to_db(colls, collection_id, ws, tbl, fail) ==
  LET i == IndexOfId(colls, collection_id, 1)
  IN IF i = 0 THEN [tbl |-> tbl, status |-> "none"]
     ELSE IF fail = 1 THEN [tbl |-> tbl, status |-> "failed"]
     ELSE IF ~ws THEN [tbl |-> tbl, status |-> "skipped"]
     ELSE IF fail \in 2..SaveCollectionCalls THEN [tbl |-> tbl, status |-> "failed"]
     ELSE [tbl |-> upsert_collection(tbl, collection_id, colls[i]), status |-> "ok"]

(* ------------------------------------------------------ CollectionsState *)
TimeSeriesBootstrapAttributes ==
  <<"name", "description", "unit", "site_name", "timestamp", "value", "type", "tags">>
EsettBootstrapAttributes == <<"name", "description", "unit">>

default_collection ==
  [id |-> "default-timeseries", name |-> "Time Series", object_type |-> "TimeSeries",
   attributes |-> TimeSeriesBootstrapAttributes, emoji |-> "bar_chart",
   view_type |-> "table", is_favorite |-> FALSE, is_default |-> TRUE]

\* the Esett data collection with the table layout
esett_collection_table_view ==
  [id |-> "esett-data", name |-> "Esett data", object_type |-> "TimeSeries",
   attributes |-> EsettBootstrapAttributes, emoji |-> "chart_increasing",
   view_type |-> "table", is_favorite |-> TRUE, is_default |-> FALSE]

esett_collection ==
  [id |-> "esett-data", name |-> "Esett data", object_type |-> "TimeSeries",
   attributes |-> EsettBootstrapAttributes, emoji |-> "chart_increasing",
   view_type |-> "time_series_cards", is_favorite |-> TRUE, is_default |-> FALSE]

\* _get_default_attributes: the static column schema of an object type
get_default_attributes(object_type) ==
  IF object_type = "TimeSeries"
    THEN <<"name", "site_name", "timestamp", "value", "unit", "type">>
  ELSE IF object_type = "Site"
    THEN <<"name", "type", "capacity", "status">>
  ELSE <<>>

\* gateway calls of _load_collections_from_db: get_workspace, get_collections
LoadCollectionsCalls == 2

\* _load_collections_from_db: [colls, loaded, result]
\* _load_collections_from_db that marks the registry loaded only when rows
\* were loaded
load_collections_from_db_unmarked(colls, loaded, ws, tbl, fail) ==
  IF loaded THEN [colls |-> colls, loaded |-> loaded, result |-> Len(colls) > 0]
  ELSE IF fail \in {1, 2} \/ ~ws \/ Len(tbl) = 0
    THEN [colls |-> colls, loaded |-> loaded, result |-> FALSE]
  ELSE [colls |-> tbl, loaded |-> TRUE, result |-> TRUE]

load_collections_from_db(colls, loaded, ws, tbl, fail) ==
  IF loaded THEN [colls |-> colls, loaded |-> loaded, result |-> Len(colls) > 0]
  ELSE IF fail = 1 THEN [colls |-> colls, loaded |-> TRUE, result |-> FALSE]
  ELSE IF ~ws THEN [colls |-> colls, loaded |-> TRUE, result |-> FALSE]
  ELSE IF fail = 2 THEN [colls |-> colls, loaded |-> TRUE, result |-> FALSE]
  ELSE IF Len(tbl) > 0 THEN [colls |-> tbl, loaded |-> TRUE, result |-> TRUE]
  ELSE [colls |-> colls, loaded |-> TRUE, result |-> FALSE]

RECURSIVE UpsertAll(_, _, _, _)
\* the loop of _save_collections_to_db: upsert colls[i..]; each upsert makes
\* two gateway calls, numbered from 2; the call numbered fail raises
UpsertAll(colls, tbl, i, fail) ==
  IF i > Len(colls) THEN [tbl |-> tbl, status |-> "ok"]
  ELSE IF fail \in {2 * i, 2 * i + 1} THEN [tbl |-> tbl, status |-> "failed"]
  ELSE UpsertAll(colls, upsert_collection(tbl, colls[i].id, colls[i]), i + 1, fail)

\* gateway calls of _save_collections_to_db for the two bootstrap collections
SaveCollectionsCalls == 5

\* _save_collections_to_db
save_collections_to_db(colls, ws, tbl, fail) ==
  IF fail = 1 THEN [tbl |-> tbl, status |-> "failed"]
  ELSE IF ~ws THEN [tbl |-> tbl, status |-> "skipped"]
  ELSE UpsertAll(colls, tbl, 1, fail)

\* _initialize_default_collections: [colls, loaded, tbl, fetched, status]
initialize_default_collections(colls, loaded, ws, tbl, failLoad, failSave) ==
  IF Len(colls) > 0
    THEN [colls |-> colls, loaded |-> loaded, tbl |-> tbl, fetched |-> FALSE,
          status |-> "none"]
  ELSE
    LET ld == load_collections_from_db(colls, loaded, ws, tbl, failLoad)
    IN IF ld.result
         THEN [colls |-> ld.colls, loaded |-> ld.loaded, tbl |-> tbl,
               fetched |-> ~loaded, status |-> "none"]
       ELSE
         LET boot == <<default_collection, esett_collection>>
             sv == save_collections_to_db(boot, ws, tbl, failSave)
         IN [colls |-> boot, loaded |-> ld.loaded, tbl |-> sv.tbl,
             fetched |-> ~loaded, status |-> sv.status]

RECURSIVE ClearDefaults(_, _, _, _, _, _)
\* first loop of set_default_collection: clear every is_default flag,
\* persisting each cleared collection
ClearDefaults(colls, tbl, i, ws, fail, statuses) ==
  IF i > Len(colls) THEN [colls |-> colls, tbl |-> tbl, statuses |-> statuses]
  ELSE IF colls[i].is_default
    THEN LET colls2 == ReplaceAt(colls, i, [colls[i] EXCEPT !.is_default = FALSE])
             sv == save_collection_to_db(colls2, colls[i].id, ws, tbl, fail)
         IN ClearDefaults(colls2, sv.tbl, i + 1, ws, fail, Append(statuses, sv.status))
  ELSE ClearDefaults(colls, tbl, i + 1, ws, fail, statuses)

\* set_default_collection that gives up when a clear could not be persisted
set_default_collection_stop_on_failure(colls, tbl, ws, collection_id, failClear, failSet) ==
  LET cl == ClearDefaults(colls, tbl, 1, ws, failClear, <<>>)
      j == IndexOfId(cl.colls, collection_id, 1)
      colls2 == IF j = 0 THEN cl.colls
                ELSE ReplaceAt(cl.colls, j, [cl.colls[j] EXCEPT !.is_default = TRUE])
      sv == save_collection_to_db(colls2, collection_id, ws, cl.tbl, failSet)
  IN IF "failed" \in Range(cl.statuses)
       THEN [colls |-> cl.colls, tbl |-> cl.tbl, statuses |-> cl.statuses]
     ELSE [colls |-> colls2, tbl |-> sv.tbl, statuses |-> Append(cl.statuses, sv.status)]

\* set_default_collection without its second loop
set_default_collection_no_set(colls, tbl, ws, collection_id, failClear, failSet) ==
  LET cl == ClearDefaults(colls, tbl, 1, ws, failClear, <<>>)
  IN [colls |-> cl.colls, tbl |-> cl.tbl, statuses |-> cl.statuses]

\* set_default_collection without its first loop
set_default_collection_no_clear(colls, tbl, ws, collection_id, failClear, failSet) ==
  LET j == IndexOfId(colls, collection_id, 1)
      colls2 == IF j = 0 THEN colls
                ELSE ReplaceAt(colls, j, [colls[j] EXCEPT !.is_default = TRUE])
      sv == save_collection_to_db(colls2, collection_id, ws, tbl, failSet)
  IN [colls |-> colls2, tbl |-> sv.tbl, statuses |-> <<sv.status>>]

\* set_default_collection: [colls, tbl, statuses]
set_default_collection(colls, tbl, ws, collection_id, failClear, failSet) ==
  LET cl == ClearDefaults(colls, tbl, 1, ws, failClear, <<>>)
      j == IndexOfId(cl.colls, collection_id, 1)
      colls2 == IF j = 0 THEN cl.colls
                ELSE ReplaceAt(cl.colls, j, [cl.colls[j] EXCEPT !.is_default = TRUE])
      sv == save_collection_to_db(colls2, collection_id, ws, cl.tbl, failSet)
  IN [colls |-> colls2, tbl |-> sv.tbl, statuses |-> Append(cl.statuses, sv.status)]

\* toggle_collection_favorite: [colls, tbl, status]
toggle_collection_favorite(colls, tbl, ws, collection_id, fail) ==
  LET j == IndexOfId(colls, collection_id, 1)
      colls2 == IF j = 0 THEN colls
                ELSE ReplaceAt(colls, j,
                       [colls[j] EXCEPT !.is_favorite = ~colls[j].is_favorite])
      sv == save_collection_to_db(colls2, collection_id, ws, tbl, fail)
  IN [colls |-> colls2, tbl |-> sv.tbl, status |-> sv.status]

\* the update loop of set_collection_emoji
set_emoji(colls, collection_id, emoji) ==
  LET j == IndexOfId(colls, collection_id, 1)
  IN IF j = 0 THEN colls ELSE ReplaceAt(colls, j, [colls[j] EXCEPT !.emoji = emoji])

\* the CollectionConfig of create_collection with the TimeSeries columns for
\* every object type
new_collection_one_schema(collection_id, name, object_type, emoji) ==
  [id |-> collection_id, name |-> name, object_type |-> object_type,
   attributes |-> get_default_attributes("TimeSeries"), emoji |-> emoji,
   view_type |-> "table", is_favorite |-> FALSE, is_default |-> FALSE]

\* the CollectionConfig built by create_collection
new_collection(collection_id, name, object_type, emoji) ==
  [id |-> collection_id, name |-> name, object_type |-> object_type,
   attributes |-> get_default_attributes(object_type), emoji |-> emoji,
   view_type |-> "table", is_favorite |-> FALSE, is_default |-> FALSE]

(***************************************************************************)
(* Python values: dicts as functions with a varying domain, str as a       *)
(* sequence of characters.                                                 *)
(***************************************************************************)
EmptyDict == [k \in {} |-> <<>>]
DictSet(d, key, v) == [k \in DOMAIN d \cup {key} |-> IF k = key THEN v ELSE d[k]]
DictGet(d, key) == IF key \in DOMAIN d THEN d[key] ELSE <<>>

Whitespace == {" ", "\t", "\n"}

RECURSIVE LStrip(_)
LStrip(s) == IF s # <<>> /\ Head(s) \in Whitespace THEN LStrip(Tail(s)) ELSE s

RECURSIVE RStrip(_)
RStrip(s) ==
  IF s # <<>> /\ s[Len(s)] \in Whitespace THEN RStrip(SubSeq(s, 1, Len(s) - 1)) ELSE s

\* str.strip()
Strip(s) == RStrip(LStrip(s))

\* str.replace("_", " ")
ReplaceUnderscore(s) == [i \in 1..Len(s) |-> IF s[i] = "_" THEN " " ELSE s[i]]

Lower == [c \in {"w", "f", "W", "F"} |-> IF c \in {"w", "W"} THEN "w" ELSE "f"]
Upper == [c \in {"w", "f", "W", "F"} |-> IF c \in {"w", "W"} THEN "W" ELSE "F"]

\* str.title(): a letter that follows a non-letter is upper-cased, every
\* other letter lower-cased
Title(s) ==
  [i \in 1..Len(s) |->
     IF s[i] \notin DOMAIN Upper THEN s[i]
     ELSE IF i = 1 \/ s[i - 1] \notin DOMAIN Upper THEN Upper[s[i]]
     ELSE Lower[s[i]]]

\* str.lower()
StrLower(s) == [i \in 1..Len(s) |-> IF s[i] \in DOMAIN Lower THEN Lower[s[i]] ELSE s[i]]

\* the in operator on str: sub occurs in s
StrIn(sub, s) ==
  \E k \in 0..(Len(s) - Len(sub)) : SubSeq(s, k + 1, k + Len(sub)) = sub

\* str(value) of a float with an integral value below ten
FloatStr(n) == <<<<"0", "1", "2", "3", "4", "5", "6", "7", "8", "9">>[n + 1], ".", "0">>

(* ---------------------------------------------- SupabaseService.entities *)
\* upsert_entity: get_entity, then update_entity or create_entity
upsert_entity(tbl, entity_id, data) ==
  LET i == IndexOfId(tbl, entity_id, 1)
      row == [data EXCEPT !.id = entity_id]
  IN IF i > 0 THEN ReplaceAt(tbl, i, row) ELSE Append(tbl, row)

RECURSIVE bulk_upsert_entities(_, _)
\* bulk_upsert_entities: one upsert statement over all rows
bulk_upsert_entities(tbl, rows) ==
  IF rows = <<>> THEN tbl
  ELSE bulk_upsert_entities(upsert_entity(tbl, Head(rows).id, Head(rows)), Tail(rows))

\* get_entities_by_type
get_entities_by_type(tbl, entity_type) ==
  SelectSeq(tbl, LAMBDA r : r.entity_type = entity_type)

(* ------------------------------------ SupabaseService.collection_entities *)
\* get_entity_ids_for_collection
get_entity_ids_for_collection(mem, collection_id) ==
  LET ms == SelectSeq(mem, LAMBDA m : m.collection_id = collection_id)
  IN [i \in 1..Len(ms) |-> ms[i].entity_id]

HasMembership(mem, collection_id, entity_id) ==
  \E i \in DOMAIN mem :
    mem[i].collection_id = collection_id /\ mem[i].entity_id = entity_id

\* add_entity_to_collection on a table without the key (collection_id, entity_id)
add_entity_to_collection_no_key(mem, collection_id, entity_id, raises) ==
  IF raises THEN [mem |-> mem, result |-> FALSE]
  ELSE [mem |-> Append(mem, [collection_id |-> collection_id, entity_id |-> entity_id]),
        result |-> TRUE]

\* add_entity_to_collection: [mem, result]; the insert raises on a duplicate
\* key or a gateway error (raises = TRUE) and the method returns False
add_entity_to_collection(mem, collection_id, entity_id, raises) ==
  IF raises \/ HasMembership(mem, collection_id, entity_id)
    THEN [mem |-> mem, result |-> FALSE]
  ELSE [mem |-> Append(mem, [collection_id |-> collection_id, entity_id |-> entity_id]),
        result |-> TRUE]

\* remove_entity_from_collection: the delete statement
remove_entity_from_collection(mem, collection_id, entity_id) ==
  SelectSeq(mem, LAMBDA m : ~(m.collection_id = collection_id /\ m.entity_id = entity_id))

\* a delete statement that removes nothing
delete_collection_mappings_none(mem, collection_id) == mem

\* the delete statement of set_collection_entities
delete_collection_mappings(mem, collection_id) ==
  SelectSeq(mem, LAMBDA m : m.collection_id # collection_id)

NoDuplicates(s) == \A i, j \in DOMAIN s : s[i] = s[j] => i = j

\* an insert statement that sends the first mapping only
insert_collection_mappings_first(mem, collection_id, entity_ids) ==
  IF entity_ids = <<>> THEN mem
  ELSE Append(mem, [collection_id |-> collection_id, entity_id |-> Head(entity_ids)])

\* the insert statement of set_collection_entities: all rows or none
insert_collection_mappings(mem, collection_id, entity_ids) ==
  mem \o [i \in 1..Len(entity_ids) |->
            [collection_id |-> collection_id, entity_id |-> entity_ids[i]]]

(* --------------------------------------------------------- EntitiesState *)
\* the TimeSeries snapshot built from a store row
EntityOf(row) == [id |-> row.id, name |-> row.name]

\* the store row built from a snapshot
RowOf(entity, entity_type) ==
  [id |-> entity.id, entity_type |-> entity_type, name |-> entity.name]

\* entities_by_collection of _load_entities_from_db
entities_by_collection(colTbl, entTbl, mem) ==
  LET db_timeseries == get_entities_by_type(entTbl, "TimeSeries")
      inMap(eid) == IndexOfId(db_timeseries, eid, 1) > 0
      members(c) ==
        LET ids == SelectSeq(get_entity_ids_for_collection(mem, c), inMap)
        IN [i \in 1..Len(ids) |-> EntityOf(db_timeseries[IndexOfId(db_timeseries, ids[i], 1)])]
  IN [c \in {colTbl[i].id : i \in DOMAIN colTbl} |-> members(c)]

\* Site / Asset list of _load_entities_from_db
entities_of_type(entTbl, entity_type) ==
  LET rows == get_entities_by_type(entTbl, entity_type)
  IN [i \in 1..Len(rows) |-> EntityOf(rows[i])]

\* gateway calls of _load_entities_from_db before the per-collection loop:
\* get_workspace, get_entities_by_type("TimeSeries"), get_collections
LoadPrefixCalls == 3

\* gateway calls of _load_entities_from_db over a store with n collections
LoadEntitiesCalls(n) == LoadPrefixCalls + n + 2

\* the try block of _load_entities_from_db: [ts, sites, assets, loaded, fetched, raised]
load_entities_body(ts, sites, assets, ws, colTbl, entTbl, mem, fail) ==
  LET n == Len(colTbl)
      same == [ts |-> ts, sites |-> sites, assets |-> assets, loaded |-> TRUE,
               fetched |-> TRUE, raised |-> FALSE]
      fresh == entities_by_collection(colTbl, entTbl, mem)
  IN IF fail = 1 THEN [same EXCEPT !.raised = TRUE]
     ELSE IF ~ws THEN same
     ELSE IF fail \in 2..(LoadPrefixCalls + n) THEN [same EXCEPT !.raised = TRUE]
     ELSE IF fail = LoadPrefixCalls + n + 1
       THEN [same EXCEPT !.ts = fresh, !.raised = TRUE]
     ELSE IF fail = LoadPrefixCalls + n + 2
       THEN [same EXCEPT !.ts = fresh, !.sites = entities_of_type(entTbl, "Site"),
                         !.raised = TRUE]
     ELSE [same EXCEPT !.ts = fresh, !.sites = entities_of_type(entTbl, "Site"),
                       !.assets = entities_of_type(entTbl, "Asset")]

\* _load_entities_from_db without the check of _entities_loaded
load_entities_from_db_no_guard(ts, sites, assets, loaded, ws, colTbl, entTbl, mem, fail) ==
  load_entities_body(ts, sites, assets, ws, colTbl, entTbl, mem, fail)

\* _load_entities_from_db: [ts, sites, assets, loaded, fetched, raised]
load_entities_from_db(ts, sites, assets, loaded, ws, colTbl, entTbl, mem, fail) ==
  IF loaded
    THEN [ts |-> ts, sites |-> sites, assets |-> assets, loaded |-> TRUE,
          fetched |-> FALSE, raised |-> FALSE]
  ELSE load_entities_body(ts, sites, assets, ws, colTbl, entTbl, mem, fail)

\* gateway calls of _save_entity_to_db: get_workspace, get_entity,
\* update_entity / create_entity, insert into collection_entities
SaveEntityCalls == 4

\* _save_entity_to_db: [entTbl, mem, status, entity, membership]
save_entity_to_db(entity, collection_id, ws, entTbl, mem, fail) ==
  LET none == [entTbl |-> entTbl, mem |-> mem, status |-> "failed",
               entity |-> FALSE, membership |-> FALSE]
  IN IF fail = 1 THEN none
     ELSE IF ~ws THEN [none EXCEPT !.status = "skipped"]
     ELSE IF fail \in {2, 3} THEN none
     ELSE
       LET ents == upsert_entity(entTbl, entity.id, RowOf(entity, "TimeSeries"))
           add == add_entity_to_collection(mem, collection_id, entity.id, fail = 4)
       IN [entTbl |-> ents, mem |-> add.mem,
           status |-> IF add.result THEN "ok" ELSE "failed",
           entity |-> TRUE, membership |-> add.result]

\* gateway calls of _save_site_to_db / _save_asset_to_db: get_workspace,
\* get_entity, update_entity / create_entity
SaveTypedEntityCalls == 3

\* _save_site_to_db and _save_asset_to_db: [entTbl, status]
save_typed_entity_to_db(entity, entity_type, ws, entTbl, fail) ==
  IF fail = 1 THEN [entTbl |-> entTbl, status |-> "failed"]
  ELSE IF ~ws THEN [entTbl |-> entTbl, status |-> "skipped"]
  ELSE IF fail \in {2, 3} THEN [entTbl |-> entTbl, status |-> "failed"]
  ELSE [entTbl |-> upsert_entity(entTbl, entity.id, RowOf(entity, entity_type)),
        status |-> "ok"]

\* gateway calls of _save_entities_to_db: get_workspace, bulk upsert,
\* delete mappings, insert mappings
SaveEntitiesCalls == 4

\* _save_entities_to_db: [entTbl, mem, status]
save_entities_to_db(ts, collection_id, ws, entTbl, mem, fail) ==
  LET entities == DictGet(ts, collection_id)
      entity_ids == [i \in 1..Len(entities) |-> entities[i].id]
      rows == [i \in 1..Len(entities) |-> RowOf(entities[i], "TimeSeries")]
      upFails == entities # <<>> /\ fail = 2
      ents == IF entities # <<>> THEN bulk_upsert_entities(entTbl, rows) ELSE entTbl
      deleted == delete_collection_mappings(mem, collection_id)
  IN IF fail = 1 THEN [entTbl |-> entTbl, mem |-> mem, status |-> "failed"]
     ELSE IF ~ws THEN [entTbl |-> entTbl, mem |-> mem, status |-> "skipped"]
     ELSE IF upFails THEN [entTbl |-> entTbl, mem |-> mem, status |-> "failed"]
     ELSE IF entity_ids = <<>> THEN [entTbl |-> ents, mem |-> mem, status |-> "ok"]
     ELSE IF fail = 3 THEN [entTbl |-> ents, mem |-> mem, status |-> "failed"]
     ELSE IF fail = 4 \/ ~NoDuplicates(entity_ids)
       THEN [entTbl |-> ents, mem |-> deleted, status |-> "failed"]
     ELSE [entTbl |-> ents,
           mem |-> insert_collection_mappings(deleted, collection_id, entity_ids),
           status |-> "ok"]

\* ids and names (abbreviated to their initial) of the four esett entities
EsettIds == <<"blackfjallet", "ranasjo", "storberget", "vindpark-nord">>
EsettNames ==
  <<<<"B">>, <<"R">>, <<"S">>, <<"V">>>>

\* esett_entities of on_load
esett_entities == [i \in 1..Len(EsettIds) |-> [id |-> EsettIds[i], name |-> EsettNames[i]]]

\* the series_key of a listed series
SeriesKey == <<"w", "_", "f">>

\* the items built by _load_timeseries_data from the listed series ids
timeseries_items(series_ids) ==
  [i \in 1..Len(series_ids) |->
     [id |-> series_ids[i], name |-> Title(ReplaceUnderscore(SeriesKey))]]

\* _load_timeseries_data once list_timeseries has returned
store_timeseries_items(ts, items) ==
  LET withDefault == DictSet(ts, "default-timeseries", items)
  IN IF "esett-data" \in DOMAIN withDefault THEN withDefault
     ELSE DictSet(withDefault, "esett-data", <<>>)

(***************************************************************************)
(* The session: one action per event handler.                              *)
(***************************************************************************)
Op(op, outcome, persist, arg) ==
  [op |-> op, outcome |-> outcome, persist |-> persist, arg |-> arg]

\* n more gateway calls raise, within the fault budget
Faulty(fail) == IF fail = NoFail THEN 0 ELSE 1
Charge(n) == faults + n <= MaxFaults /\ faults' = faults + n
\* a SupabaseService call reaches the network, and can raise, only when
\* is_supabase_configured() holds
GatewayCharge(n) == (n > 0 => configured) /\ Charge(n)

\* saturating count of remote fetches
FetchCap == 3
Bump(n) == IF n < FetchCap THEN n + 1 ELSE n

EntityNameInputs == {<<>>, <<" ">>, <<"a">>, <<" ", "a", "\t">>}
EmojiInputs == {"star"}
RouteEntityNames == {"", "timeseries", "sites", "assets"}

\* ids held by the registry or the collections table
UsedCollectionIds ==
  {collections[i].id : i \in DOMAIN collections}
    \cup {dbCollections[i].id : i \in DOMAIN dbCollections}

\* ids held by the cache or the entities table
UsedEntityIds ==
  UNION {{time_series_entities[c][i].id : i \in DOMAIN time_series_entities[c]} :
           c \in DOMAIN time_series_entities}
    \cup {site_entities[i].id : i \in DOMAIN site_entities}
    \cup {asset_entities[i].id : i \in DOMAIN asset_entities}
    \cup {dbEntities[i].id : i \in DOMAIN dbEntities}

SessionIds == 1..MaxSessions
CallerIds == 1..MaxCallers

\* the cache content a caller sees: the three structures of EntitiesState
CacheOf(ts, sites, assets) == [ts |-> ts, sites |-> sites, assets |-> assets]
NoCache == CacheOf(EmptyDict, <<>>, <<>>)

\* a membership operation of SupabaseService as its caller sees it: result is
\* "true" / "false" (the returned bool) or "raised"; fault tells that the
\* request failed in transport
Call(op, collection_id, entity_id, result, fault) ==
  [op |-> op, collection_id |-> collection_id, entity_id |-> entity_id,
   result |-> result, fault |-> fault]
NoCall == Call("none", "", "", "none", FALSE)

\* a set_collection_entities call that has run its delete statement;
\* hadMembers: the collection had members when the call started, seen: what
\* a reader of the store observed meanwhile, interfered: another membership
\* write ran meanwhile
Replacing(pc, collection_id, entity_ids, hadMembers, seen, interfered) ==
  [pc |-> pc, collection_id |-> collection_id, entity_ids |-> entity_ids,
   hadMembers |-> hadMembers, seen |-> seen, interfered |-> interfered]
NoReplace == Replacing("idle", "", <<>>, FALSE, "none", FALSE)

\* the collection page: the TimeSeries list it shows, collection_search_query
\* and the last value of selected_collection_entities
Searching(items, query, result, shown) ==
  [items |-> items, query |-> query, result |-> result, shown |-> shown]
NoSearch == Searching(<<>>, <<>>, <<>>, FALSE)

InitCollectionTables ==
  {<<>>}
    \cup {<<[default_collection EXCEPT !.is_default = d1],
            [esett_collection EXCEPT !.is_default = d2]>> :
            <<d1, d2>> \in {<<FALSE, FALSE>>, <<TRUE, FALSE>>, <<FALSE, TRUE>>}}

InitSession ==
  /\ workspace_loaded = FALSE
  /\ default_collection_id = ""
  /\ collections = <<>>
  /\ collections_loaded = FALSE
  /\ selected_collection_id = ""
  /\ time_series_entities = EmptyDict
  /\ site_entities = <<>>
  /\ asset_entities = <<>>
  /\ entities_loaded = FALSE
  /\ selected_object_type = ""
  /\ lastOp = Op("init", "none", "none", "")
  /\ lastLoad = "none"
  /\ faults = 0
  /\ sessions = [s \in SessionIds |-> [colls |-> <<>>, loaded |-> FALSE]]
  /\ callers = [k \in CallerIds |-> [pc |-> "start", sawUnloaded |-> FALSE,
                                      observed |-> NoCache]]
  /\ membershipCall = NoCall
  /\ replace = NoReplace
  /\ search = NoSearch
  /\ fetches = 0

Init ==
  /\ configured \in BOOLEAN
  /\ dbWorkspace \in (IF configured THEN BOOLEAN ELSE {FALSE})
  /\ dbCollections \in (IF dbWorkspace THEN InitCollectionTables ELSE {<<>>})
  /\ dbEntities = <<>>
  /\ dbMembership = <<>>
  /\ InitSession

\* the default_collection_id column of the workspace row: both writers of
\* the row, _create_workspace_in_db and _save_workspace_to_db, send
\* `self.default_collection_id or None`, and no dispatched handler assigns
\* that field, so the column is never set
stored_default_collection_id == ""

\* WorkspaceState.load_workspace_from_db (with _create_workspace_in_db)
load_workspace_from_db(fail) ==
  /\ ~workspace_loaded
  /\ GatewayCharge(Faulty(fail))
  /\ workspace_loaded' = TRUE
  /\ default_collection_id' =
       IF fail # 1 /\ get_workspace THEN stored_default_collection_id
       ELSE default_collection_id
  /\ dbWorkspace' = (dbWorkspace \/ (configured /\ fail = NoFail))
  /\ lastOp' = Op("load_workspace_from_db", "none", "none", "")
  /\ lastLoad' = "none"
  /\ UNCHANGED <<configured, dbCollections, dbEntities, dbMembership>>
  /\ UNCHANGED <<registryVars, cacheVars, sessions, callers, gatewayVars, search>>

\* CollectionsState.on_load
collections_on_load(failLoad, failSave) ==
  LET r == initialize_default_collections(collections, collections_loaded,
             get_workspace, dbCollections, failLoad, failSave)
  IN /\ GatewayCharge(Faulty(failLoad) + Faulty(failSave))
     /\ collections' = r.colls
     /\ collections_loaded' = r.loaded
     /\ dbCollections' = r.tbl
     /\ selected_collection_id' =
          IF selected_collection_id = "" THEN "default-timeseries"
          ELSE selected_collection_id
     /\ lastOp' = Op("collections_on_load", "none", r.status,
                     IF r.fetched THEN "fetched" ELSE "")
     /\ lastLoad' = "none"
     /\ UNCHANGED <<configured, dbWorkspace, dbEntities, dbMembership>>
     /\ UNCHANGED <<workspace_loaded, cacheVars, otherVars>>

\* CollectionsState.create_collection
create_collection(collection_id, name, object_type, fail) ==
  LET colls2 == Append(collections,
                  new_collection(collection_id, name, object_type, "clipboard"))
      sv == save_collection_to_db(colls2, collection_id, get_workspace, dbCollections, fail)
  IN /\ collection_id \in NewCollectionIds \ UsedCollectionIds
     /\ GatewayCharge(Faulty(fail))
     /\ collections' = colls2
     /\ selected_collection_id' = collection_id
     /\ dbCollections' = sv.tbl
     /\ lastOp' = Op("create_collection", "success", sv.status, collection_id)
     /\ lastLoad' = "none"
     /\ UNCHANGED <<configured, dbWorkspace, dbEntities, dbMembership>>
     /\ UNCHANGED <<workspace_loaded, collections_loaded, cacheVars, otherVars>>

\* CollectionsState.set_collection_emoji
set_collection_emoji(emoji, fail) ==
  LET colls2 == set_emoji(collections, selected_collection_id, emoji)
      sv == save_collection_to_db(colls2, selected_collection_id, get_workspace,
              dbCollections, fail)
  IN /\ selected_collection_id # ""
     /\ GatewayCharge(Faulty(fail))
     /\ collections' = colls2
     /\ dbCollections' = sv.tbl
     /\ lastOp' = Op("set_collection_emoji", "success", sv.status, selected_collection_id)
     /\ lastLoad' = "none"
     /\ UNCHANGED <<configured, dbWorkspace, dbEntities, dbMembership>>
     /\ UNCHANGED <<workspace_loaded, collections_loaded, selected_collection_id,
                    cacheVars, otherVars>>

\* CollectionsState.toggle_collection_favorite
toggle_favorite(collection_id, fail) ==
  LET r == toggle_collection_favorite(collections, dbCollections, get_workspace,
             collection_id, fail)
  IN /\ GatewayCharge(Faulty(fail))
     /\ collections' = r.colls
     /\ dbCollections' = r.tbl
     /\ lastOp' = Op("toggle_collection_favorite", "none", r.status, collection_id)
     /\ lastLoad' = "none"
     /\ UNCHANGED <<configured, dbWorkspace, dbEntities, dbMembership>>
     /\ UNCHANGED <<workspace_loaded, collections_loaded, selected_collection_id,
                    cacheVars, otherVars>>

\* CollectionsState.set_default_collection
set_default(collection_id, failClear, failSet) ==
  LET r == set_default_collection(collections, dbCollections, get_workspace,
             collection_id, failClear, failSet)
  IN /\ GatewayCharge(Faulty(failClear) + Faulty(failSet))
     /\ collections' = r.colls
     /\ dbCollections' = r.tbl
     /\ lastOp' = Op("set_default_collection", "none", Overall(r.statuses), collection_id)
     /\ lastLoad' = "none"
     /\ UNCHANGED <<configured, dbWorkspace, dbEntities, dbMembership>>
     /\ UNCHANGED <<workspace_loaded, collections_loaded, selected_collection_id,
                    cacheVars, otherVars>>

\* how a call of _load_entities_from_db ended
LoadOutcome(r, loadedBefore, ws) ==
  IF loadedBefore THEN "cached"
  ELSE IF r.raised THEN "raised"
  ELSE IF ~ws THEN "no_workspace"
  ELSE "ok"

LoadFailInputs == 0..LoadEntitiesCalls(Len(dbCollections))

\* EntitiesState.on_load
entities_on_load(failLoad, failSave) ==
  LET ld == load_entities_from_db(time_series_entities, site_entities, asset_entities,
              entities_loaded, get_workspace, dbCollections, dbEntities, dbMembership,
              failLoad)
      boot == DictSet(DictSet(ld.ts, "default-timeseries", <<>>),
                      "esett-data", esett_entities)
      sv == save_entities_to_db(boot, "esett-data", get_workspace, dbEntities,
              dbMembership, failSave)
      empty == DOMAIN ld.ts = {}
  IN /\ GatewayCharge(Faulty(failLoad) + Faulty(failSave))
     /\ time_series_entities' = IF empty THEN boot ELSE ld.ts
     /\ site_entities' = ld.sites
     /\ asset_entities' = ld.assets
     /\ entities_loaded' = ld.loaded
     /\ fetches' = IF ld.fetched THEN Bump(fetches) ELSE fetches
     /\ dbEntities' = IF empty THEN sv.entTbl ELSE dbEntities
     /\ dbMembership' = IF empty THEN sv.mem ELSE dbMembership
     /\ lastOp' = Op("entities_on_load", "none", IF empty THEN sv.status ELSE "none", "")
     /\ lastLoad' = LoadOutcome(ld, entities_loaded, get_workspace)
     /\ UNCHANGED <<configured, dbWorkspace, dbCollections>>
     /\ UNCHANGED <<workspace_loaded, registryVars, selected_object_type, otherVars>>

\* entity_type_map of on_load_entity_page
entity_type_map(entity_name) ==
  IF entity_name = "timeseries" THEN "TimeSeries"
  ELSE IF entity_name = "sites" THEN "Sites"
  ELSE IF entity_name = "assets" THEN "Assets"
  ELSE entity_name

\* EntitiesState.on_load_entity_page: invalidate, then _load_entities_from_db
on_load_entity_page(entity_name, fail) ==
  LET ld == load_entities_from_db(time_series_entities, site_entities, asset_entities,
              FALSE, get_workspace, dbCollections, dbEntities, dbMembership, fail)
  IN /\ GatewayCharge(Faulty(fail))
     /\ time_series_entities' = ld.ts
     /\ site_entities' = ld.sites
     /\ asset_entities' = ld.assets
     /\ entities_loaded' = ld.loaded
     /\ fetches' = IF ld.fetched THEN Bump(0) ELSE 0
     /\ selected_object_type' =
          IF entity_name # "" THEN entity_type_map(entity_name) ELSE selected_object_type
     /\ lastOp' = Op("on_load_entity_page", "none", "none", "")
     /\ lastLoad' = LoadOutcome(ld, FALSE, get_workspace)
     /\ UNCHANGED storeVars
     /\ UNCHANGED <<workspace_loaded, registryVars, otherVars>>

SeriesListings ==
  {s \in UNION {[1..n -> SeriesIds] : n \in 0..MaxSeries} : NoDuplicates(s)}

\* EntitiesState.refresh_timeseries_entities (_load_timeseries_data); the
\* TimeDB request raises when ok is FALSE
refresh_timeseries_entities(ok, series_ids) ==
  /\ Charge(IF ok THEN 0 ELSE 1)
  /\ time_series_entities' =
       IF ok THEN store_timeseries_items(time_series_entities, timeseries_items(series_ids))
       ELSE time_series_entities
  /\ lastOp' = Op("refresh_timeseries_entities", "success", "none", "")
  /\ lastLoad' = "none"
  /\ UNCHANGED storeVars
  /\ UNCHANGED <<workspace_loaded, registryVars, site_entities, asset_entities,
                 entities_loaded, selected_object_type, fetches, otherVars>>

\* the name check without the strip
ValidName_no_strip(name) == name # <<>>

\* the name check of create_entity
ValidName(name) == Strip(name) # <<>>

\* EntitiesState.create_entity; capacityOk: float(form_data["capacity"]) parses
create_entity(name, capacityOk, fail) ==
  LET stripped == Strip(name)
      rejected(arg) ==
        /\ fail = NoFail
        /\ UNCHANGED faults
        /\ lastOp' = Op("create_entity", "error", "none", arg)
        /\ UNCHANGED storeVars
        /\ UNCHANGED <<time_series_entities, site_entities, asset_entities>>
  IN /\ lastLoad' = "none"
     /\ UNCHANGED <<workspace_loaded, registryVars, entities_loaded,
                    selected_object_type, fetches, otherVars>>
     /\ IF ~ValidName(name) THEN rejected("name")
        ELSE IF selected_object_type = "TimeSeries" THEN
          \E entity_id \in NewEntityIds \ UsedEntityIds :
            LET new_entity == [id |-> entity_id, name |-> stripped]
                ts2 == DictSet(time_series_entities, "default-timeseries",
                         Append(DictGet(time_series_entities, "default-timeseries"),
                                new_entity))
                sv == save_entity_to_db(new_entity, "default-timeseries", get_workspace,
                        dbEntities, dbMembership, fail)
            IN /\ GatewayCharge(Faulty(fail))
               /\ time_series_entities' = ts2
               /\ dbEntities' = sv.entTbl
               /\ dbMembership' = sv.mem
               /\ lastOp' = Op("create_entity", "success", sv.status, entity_id)
               /\ UNCHANGED <<configured, dbWorkspace, dbCollections,
                              site_entities, asset_entities>>
        ELSE IF selected_object_type = "Sites" THEN
          IF ~capacityOk THEN rejected("capacity")
          ELSE
            \E entity_id \in NewEntityIds \ UsedEntityIds :
              LET new_site == [id |-> entity_id, name |-> stripped]
                  sv == save_typed_entity_to_db(new_site, "Site", get_workspace,
                          dbEntities, fail)
              IN /\ fail # SaveEntityCalls
                 /\ GatewayCharge(Faulty(fail))
                 /\ site_entities' = Append(site_entities, new_site)
                 /\ dbEntities' = sv.entTbl
                 /\ lastOp' = Op("create_entity", "success", sv.status, entity_id)
                 /\ UNCHANGED <<configured, dbWorkspace, dbCollections, dbMembership,
                                time_series_entities, asset_entities>>
        ELSE IF selected_object_type = "Assets" THEN
          \E entity_id \in NewEntityIds \ UsedEntityIds :
            LET new_asset == [id |-> entity_id, name |-> stripped]
                sv == save_typed_entity_to_db(new_asset, "Asset", get_workspace,
                        dbEntities, fail)
            IN /\ fail # SaveEntityCalls
               /\ GatewayCharge(Faulty(fail))
               /\ asset_entities' = Append(asset_entities, new_asset)
               /\ dbEntities' = sv.entTbl
               /\ lastOp' = Op("create_entity", "success", sv.status, entity_id)
               /\ UNCHANGED <<configured, dbWorkspace, dbCollections, dbMembership,
                              time_series_entities, site_entities>>
        ELSE rejected("type")

WorkspaceStep ==
  \E fail \in 0..2 : load_workspace_from_db(fail)

CollectionsOnLoadStep ==
  \E failLoad \in 0..LoadCollectionsCalls, failSave \in 0..SaveCollectionsCalls :
    collections_on_load(failLoad, failSave)

(* the Collection Registry of one session over the store *)
NextRegistry ==
  \/ WorkspaceStep
  \/ CollectionsOnLoadStep
  \/ \E collection_id \in NewCollectionIds, fail \in 0..SaveCollectionCalls :
       create_collection(collection_id, "Wind Farms", "Site", fail)
  \/ \E emoji \in EmojiInputs, fail \in 0..SaveCollectionCalls :
       set_collection_emoji(emoji, fail)
  \/ \E collection_id \in CollectionIds, fail \in 0..SaveCollectionCalls :
       toggle_favorite(collection_id, fail)
  \/ \E collection_id \in CollectionIds, failClear \in 0..SaveCollectionCalls,
        failSet \in 0..SaveCollectionCalls :
       set_default(collection_id, failClear, failSet)

SpecRegistry == Init /\ [][NextRegistry]_vars

(* create_collection over the values its form can submit *)
CollectionNameInputs == {"", "Wind Farms"}
ObjectTypes == {"TimeSeries", "Site", "Asset"}

NextCreate ==
  \/ WorkspaceStep
  \/ CollectionsOnLoadStep
  \/ \E collection_id \in NewCollectionIds, name \in CollectionNameInputs,
        object_type \in ObjectTypes, fail \in 0..SaveCollectionCalls :
       create_collection(collection_id, name, object_type, fail)

SpecCreate == Init /\ [][NextCreate]_vars

(* the page load of a session: app.py wires the three on_load handlers *)
NextBootstrap ==
  \/ WorkspaceStep
  \/ CollectionsOnLoadStep
  \/ \E failLoad \in LoadFailInputs, failSave \in 0..SaveEntitiesCalls :
       entities_on_load(failLoad, failSave)

SpecBootstrap == Init /\ [][NextBootstrap]_vars

(* the Entity Cache of one session over the store *)
Next ==
  \/ WorkspaceStep
  \/ \E failLoad \in LoadFailInputs, failSave \in 0..SaveEntitiesCalls :
       entities_on_load(failLoad, failSave)
  \/ \E entity_name \in RouteEntityNames, fail \in LoadFailInputs :
       on_load_entity_page(entity_name, fail)
  \/ \E ok \in BOOLEAN, series_ids \in SeriesListings :
       refresh_timeseries_entities(ok, series_ids)
  \/ \E name \in EntityNameInputs, capacityOk \in BOOLEAN, fail \in 0..SaveEntityCalls :
       create_entity(name, capacityOk, fail)

Spec == Init /\ [][Next]_vars

(***************************************************************************)
(* Several sessions over one store.  Each session hydrates its own         *)
(* registry once and keeps it; every persist call succeeds.                *)
(***************************************************************************)
InitSessions ==
  /\ configured = TRUE
  /\ dbWorkspace = TRUE
  /\ dbCollections \in InitCollectionTables
  /\ dbEntities = <<>>
  /\ dbMembership = <<>>
  /\ InitSession

sessionFrame ==
  /\ lastLoad' = "none"
  /\ UNCHANGED <<configured, dbWorkspace, dbEntities, dbMembership, workspace_loaded,
                 registryVars, cacheVars, callers, gatewayVars, search, faults,
                 default_collection_id>>

\* the collections var of session s: _initialize_default_collections
session_collections(s) ==
  LET r == initialize_default_collections(sessions[s].colls, sessions[s].loaded,
             get_workspace, dbCollections, NoFail, NoFail)
  IN /\ sessions[s].colls = <<>>
     /\ sessions' = [sessions EXCEPT ![s] = [colls |-> r.colls, loaded |-> r.loaded]]
     /\ dbCollections' = r.tbl
     /\ lastOp' = Op("collections", "none", r.status, "")
     /\ sessionFrame

\* set_default_collection in session s
session_set_default(s, collection_id) ==
  LET r == set_default_collection(sessions[s].colls, dbCollections, get_workspace,
             collection_id, NoFail, NoFail)
  IN /\ IndexOfId(sessions[s].colls, collection_id, 1) > 0
     /\ sessions' = [sessions EXCEPT ![s].colls = r.colls]
     /\ dbCollections' = r.tbl
     /\ lastOp' = Op("set_default_collection", "none", Overall(r.statuses), collection_id)
     /\ sessionFrame

NextSessions ==
  \/ \E s \in SessionIds : session_collections(s)
  \/ \E s \in SessionIds, collection_id \in CollectionIds :
       session_set_default(s, collection_id)

SpecSessions == InitSessions /\ [][NextSessions]_vars

(***************************************************************************)
(* Concurrent callers of _load_entities_from_db on one cache: the method   *)
(* takes no lock, so its statements interleave.                            *)
(***************************************************************************)
InitLoad ==
  /\ configured = TRUE
  /\ dbWorkspace = TRUE
  /\ dbCollections = <<default_collection, esett_collection>>
  /\ dbEntities = <<>>
  /\ dbMembership = <<>>
  /\ InitSession

loadFrame ==
  /\ lastLoad' = "none"
  /\ UNCHANGED <<configured, dbWorkspace, dbCollections, workspace_loaded,
                 registryVars, selected_object_type, sessions, gatewayVars, search,
                 default_collection_id,
                 faults>>

SetCaller(k, pc, saw, observed) ==
  callers' = [callers EXCEPT ![k] = [pc |-> pc, sawUnloaded |-> saw, observed |-> observed]]

CurrentCache == CacheOf(time_series_entities, site_entities, asset_entities)

\* line 77: the check of _entities_loaded
load_check(k) ==
  /\ callers[k].pc = "start"
  /\ IF entities_loaded
       THEN SetCaller(k, "done", FALSE, CurrentCache)
       ELSE SetCaller(k, "timeseries", TRUE, NoCache)
  /\ lastOp' = Op("load_check", "none", "none", "")
  /\ UNCHANGED <<dbEntities, dbMembership, time_series_entities, site_entities,
                 asset_entities, entities_loaded, fetches>>
  /\ loadFrame

\* lines 84-122: fetch the TimeSeries entities and the memberships, assign
\* _time_series_entities
load_timeseries(k) ==
  /\ callers[k].pc = "timeseries"
  /\ time_series_entities' = entities_by_collection(dbCollections, dbEntities, dbMembership)
  /\ fetches' = Bump(fetches)
  /\ SetCaller(k, "sites", TRUE, NoCache)
  /\ lastOp' = Op("load_timeseries", "none", "none", "")
  /\ UNCHANGED <<dbEntities, dbMembership, site_entities, asset_entities, entities_loaded>>
  /\ loadFrame

\* lines 125-140: fetch and assign _site_entities
load_sites(k) ==
  /\ callers[k].pc = "sites"
  /\ site_entities' = entities_of_type(dbEntities, "Site")
  /\ SetCaller(k, "assets", TRUE, NoCache)
  /\ lastOp' = Op("load_sites", "none", "none", "")
  /\ UNCHANGED <<dbEntities, dbMembership, time_series_entities, asset_entities,
                 entities_loaded, fetches>>
  /\ loadFrame

\* lines 143-160: fetch and assign _asset_entities, set _entities_loaded, return
load_assets(k) ==
  /\ callers[k].pc = "assets"
  /\ asset_entities' = entities_of_type(dbEntities, "Asset")
  /\ entities_loaded' = TRUE
  /\ SetCaller(k, "done", TRUE,
       CacheOf(time_series_entities, site_entities, asset_entities'))
  /\ lastOp' = Op("load_assets", "none", "none", "")
  /\ UNCHANGED <<dbEntities, dbMembership, time_series_entities, site_entities, fetches>>
  /\ loadFrame

\* another session's create_entity persists a TimeSeries entity and its
\* membership of default-timeseries
other_session_create(entity_id) ==
  LET sv == save_entity_to_db([id |-> entity_id, name |-> <<"a">>], "default-timeseries",
              get_workspace, dbEntities, dbMembership, NoFail)
  IN /\ entity_id \in NewEntityIds \ {dbEntities[i].id : i \in DOMAIN dbEntities}
     /\ dbEntities' = sv.entTbl
     /\ dbMembership' = sv.mem
     /\ lastOp' = Op("other_session_create", "none", sv.status, entity_id)
     /\ UNCHANGED <<time_series_entities, site_entities, asset_entities,
                    entities_loaded, fetches, callers>>
     /\ loadFrame

NextLoad ==
  \/ \E k \in CallerIds : load_check(k)
  \/ \E k \in CallerIds : load_timeseries(k)
  \/ \E k \in CallerIds : load_sites(k)
  \/ \E k \in CallerIds : load_assets(k)
  \/ \E entity_id \in NewEntityIds : other_session_create(entity_id)

SpecLoad == InitLoad /\ [][NextLoad]_vars

(***************************************************************************)
(* The membership operations of SupabaseService called directly, by        *)
(* several clients of one store.  set_collection_entities runs its delete  *)
(* and its insert as two requests; other requests may arrive in between.   *)
(***************************************************************************)
MemberIds == NewEntityIds

\* entity_ids arguments: every list of up to MaxIdList ids, repeats included
MaxIdList == 2
IdLists == UNION {[1..n -> MemberIds] : n \in 0..MaxIdList}

InitMembership ==
  /\ configured \in BOOLEAN
  /\ dbWorkspace = configured
  /\ dbCollections = IF configured THEN <<default_collection, esett_collection>> ELSE <<>>
  /\ dbEntities = <<>>
  /\ dbMembership = <<>>
  /\ InitSession

membershipFrame ==
  /\ lastOp' = Op("membership", "none", "none", "")
  /\ lastLoad' = "none"
  /\ UNCHANGED <<configured, dbWorkspace, dbCollections, dbEntities, workspace_loaded,
                 registryVars, cacheVars, sessions, callers, search,
                 default_collection_id>>

\* another write arrived while a set_collection_entities call is in flight
Interfere ==
  replace' = IF replace.pc = "idle" THEN replace ELSE [replace EXCEPT !.interfered = TRUE]

\* SupabaseService.add_entity_to_collection(collection_id, entity_id)
membership_add(collection_id, entity_id, raises) ==
  LET r == add_entity_to_collection(dbMembership, collection_id, entity_id, raises)
  IN /\ GatewayCharge(IF raises THEN 1 ELSE 0)
     /\ dbMembership' = IF configured THEN r.mem ELSE dbMembership
     /\ membershipCall' =
          Call("add_entity_to_collection", collection_id, entity_id,
               IF configured /\ r.result THEN "true" ELSE "false", raises)
     /\ Interfere
     /\ membershipFrame

\* SupabaseService.remove_entity_from_collection(collection_id, entity_id)
membership_remove(collection_id, entity_id, raises) ==
  /\ GatewayCharge(IF raises THEN 1 ELSE 0)
  /\ dbMembership' =
       IF configured /\ ~raises
         THEN remove_entity_from_collection(dbMembership, collection_id, entity_id)
       ELSE dbMembership
  /\ membershipCall' =
       Call("remove_entity_from_collection", collection_id, entity_id,
            IF ~configured THEN "false" ELSE IF raises THEN "raised" ELSE "true",
            raises)
  /\ Interfere
  /\ membershipFrame

\* SupabaseService.get_entity_ids_for_collection(collection_id), by a reader
\* of the store
membership_read(collection_id) ==
  LET ids == IF configured THEN get_entity_ids_for_collection(dbMembership, collection_id)
             ELSE <<>>
  IN /\ membershipCall' =
          Call("get_entity_ids_for_collection", collection_id, "",
               IF ids = <<>> THEN "empty" ELSE "some", FALSE)
     /\ replace' =
          IF replace.pc = "deleted" /\ replace.collection_id = collection_id
            THEN [replace EXCEPT !.seen = IF ids = <<>> THEN "zero" ELSE replace.seen]
          ELSE replace
     /\ UNCHANGED <<dbMembership, faults>>
     /\ membershipFrame

\* SupabaseService.get_entity_count_for_collection(collection_id)
membership_count(collection_id) ==
  LET count == IF configured
                 THEN Len(get_entity_ids_for_collection(dbMembership, collection_id))
               ELSE 0
  IN /\ membershipCall' =
          Call("get_entity_count_for_collection", collection_id, "",
               IF count = 0 THEN "empty" ELSE "some", FALSE)
     /\ UNCHANGED <<dbMembership, faults, replace>>
     /\ membershipFrame

\* set_collection_entities up to and including its delete statement
\* (lines 328-337); not configured: the whole call returns False
replace_delete(collection_id, entity_ids, raises) ==
  /\ replace.pc = "idle"
  /\ GatewayCharge(IF raises THEN 1 ELSE 0)
  /\ IF ~configured
       THEN /\ membershipCall' = Call("set_collection_entities", collection_id, "",
                                       "false", FALSE)
            /\ UNCHANGED <<dbMembership, replace>>
     ELSE IF raises
       THEN /\ membershipCall' = Call("set_collection_entities", collection_id, "",
                                       "raised", TRUE)
            /\ UNCHANGED <<dbMembership, replace>>
     ELSE /\ dbMembership' = delete_collection_mappings(dbMembership, collection_id)
          /\ replace' = Replacing("deleted", collection_id, entity_ids,
                 get_entity_ids_for_collection(dbMembership, collection_id) # <<>>,
                 "none", FALSE)
          /\ membershipCall' = Call("set_collection_entities:delete", collection_id, "",
                                    "none", FALSE)
  /\ membershipFrame

\* the rest of set_collection_entities (lines 340-348): the insert statement,
\* which the store rejects as a whole on a duplicate key
replace_insert(raises) ==
  LET c == replace.collection_id
      ids == replace.entity_ids
      rejected == \/ raises
                  \/ ~NoDuplicates(ids)
                  \/ \E i \in DOMAIN ids : HasMembership(dbMembership, c, ids[i])
  IN /\ replace.pc = "deleted"
     /\ GatewayCharge(IF raises THEN 1 ELSE 0)
     /\ raises => ids # <<>>
     /\ dbMembership' =
          IF ids = <<>> \/ rejected THEN dbMembership
          ELSE insert_collection_mappings(dbMembership, c, ids)
     /\ membershipCall' =
          Call("set_collection_entities", c, "",
               IF ids # <<>> /\ rejected THEN "raised" ELSE "true", raises)
     /\ replace' = Replacing("idle", "", <<>>, replace.hadMembers, replace.seen, FALSE)
     /\ membershipFrame

NextMembership ==
  \/ \E c \in BootstrapCollectionIds, e \in MemberIds, raises \in BOOLEAN :
       membership_add(c, e, raises)
  \/ \E c \in BootstrapCollectionIds, e \in MemberIds, raises \in BOOLEAN :
       membership_remove(c, e, raises)
  \/ \E c \in BootstrapCollectionIds : membership_read(c)
  \/ \E c \in BootstrapCollectionIds, ids \in IdLists, raises \in BOOLEAN :
       replace_delete(c, ids, raises)
  \/ \E raises \in BOOLEAN : replace_insert(raises)

SpecMembership == InitMembership /\ [][NextMembership]_vars

(***************************************************************************)
(* The filtered view of the collection page: set_collection_search_query   *)
(* and the computed var selected_collection_entities.                      *)
(***************************************************************************)
\* the lower-casing of the query, left out
search_query_as_typed(query) == query

\* query = self.collection_search_query.lower()
search_query_lower(query) == StrLower(query)

\* the condition of the list comprehension of selected_collection_entities
search_matches(item, query) ==
  \/ StrIn(query, StrLower(item.name))
  \/ StrIn(query, StrLower(item.description))
  \/ StrIn(query, StrLower(item.unit))
  \/ StrIn(query, StrLower(item.site_name))
  \/ StrIn(query, StrLower(FloatStr(item.value)))
  \/ StrIn(query, StrLower(item.type))

\* selected_collection_entities over the list items of the active collection
selected_collection_entities(items, query) ==
  IF query # <<>>
    THEN SelectSeq(items, LAMBDA item : search_matches(item, search_query_lower(query)))
  ELSE items

\* TimeSeries snapshots with the searchable fields
SearchEntities ==
  {[id |-> id, name |-> name, description |-> <<>>, unit |-> <<"%">>,
    site_name |-> site_name, value |-> value, type |-> <<"f">>] :
     id \in {"ent-uuid-1"}, name \in {<<"W", "f">>, <<"f", "w">>},
     site_name \in {<<>>, <<"F">>}, value \in {0, 7}}

MaxSearchList == 2
SearchLists == UNION {[1..n -> SearchEntities] : n \in 0..MaxSearchList}

SearchQueries ==
  {<<>>, <<"w">>, <<"W", "F">>, <<"f">>, <<"7">>, <<".", "0">>, <<"%">>, <<"x">>, <<" ">>}

InitSearch ==
  /\ configured = FALSE
  /\ dbWorkspace = FALSE
  /\ dbCollections = <<>>
  /\ dbEntities = <<>>
  /\ dbMembership = <<>>
  /\ workspace_loaded = FALSE
  /\ default_collection_id = ""
  /\ collections = <<>>
  /\ collections_loaded = FALSE
  /\ selected_collection_id = ""
  /\ time_series_entities = EmptyDict
  /\ site_entities = <<>>
  /\ asset_entities = <<>>
  /\ entities_loaded = FALSE
  /\ selected_object_type = ""
  /\ lastOp = Op("init", "none", "none", "")
  /\ lastLoad = "none"
  /\ faults = 0
  /\ sessions = [s \in SessionIds |-> [colls |-> <<>>, loaded |-> FALSE]]
  /\ callers = [k \in CallerIds |-> [pc |-> "start", sawUnloaded |-> FALSE,
                                      observed |-> NoCache]]
  /\ membershipCall = NoCall
  /\ replace = NoReplace
  /\ fetches = 0
  /\ \E items \in SearchLists : search = Searching(items, <<>>, <<>>, FALSE)

searchFrame ==
  UNCHANGED <<storeVars, workspace_loaded, registryVars, cacheVars, sessions, callers,
              gatewayVars, lastOp, lastLoad, faults, default_collection_id>>

\* CollectionsState.set_collection_search_query
set_collection_search_query(query) ==
  /\ search' = Searching(search.items, query, <<>>, FALSE)
  /\ searchFrame

\* the computed var selected_collection_entities is evaluated
show_selected_collection_entities ==
  /\ ~search.shown
  /\ search' = [search EXCEPT !.result = selected_collection_entities(search.items, search.query),
                              !.shown = TRUE]
  /\ searchFrame

NextSearch ==
  \/ \E query \in SearchQueries : set_collection_search_query(query)
  \/ show_selected_collection_entities

SpecSearch == InitSearch /\ [][NextSearch]_vars

(***************************************************************************)
(* A session without SUPABASE_URL / SUPABASE_KEY: the store holds data     *)
(* that no gateway call reaches.                                           *)
(***************************************************************************)
InitNotConfigured ==
  /\ configured = FALSE
  /\ dbWorkspace = TRUE
  /\ dbCollections = <<default_collection, [esett_collection EXCEPT !.is_default = TRUE]>>
  /\ dbEntities = <<RowOf([id |-> EntityUuidPool[1], name |-> <<"a">>], "TimeSeries")>>
  /\ dbMembership = <<[collection_id |-> "default-timeseries",
                       entity_id |-> EntityUuidPool[1]]>>
  /\ InitSession

NextNotConfigured ==
  \/ WorkspaceStep
  \/ CollectionsOnLoadStep
  \/ \E collection_id \in NewCollectionIds, fail \in 0..SaveCollectionCalls :
       create_collection(collection_id, "Wind Farms", "Site", fail)
  \/ \E collection_id \in CollectionIds, fail \in 0..SaveCollectionCalls :
       toggle_favorite(collection_id, fail)
  \/ \E collection_id \in CollectionIds, failClear \in 0..SaveCollectionCalls,
        failSet \in 0..SaveCollectionCalls :
       set_default(collection_id, failClear, failSet)
  \/ \E failLoad \in LoadFailInputs, failSave \in 0..SaveEntitiesCalls :
       entities_on_load(failLoad, failSave)
  \/ \E entity_name \in RouteEntityNames, fail \in LoadFailInputs :
       on_load_entity_page(entity_name, fail)
  \/ \E fail \in 0..SaveEntityCalls : create_entity(<<"a">>, TRUE, fail)
  \/ \E c \in BootstrapCollectionIds : membership_read(c)
  \/ \E c \in BootstrapCollectionIds : membership_count(c)

SpecNotConfigured == InitNotConfigured /\ [][NextNotConfigured]_vars

(***************************************************************************)
(* _load_entities_from_db one gateway call at a time: each call returns or *)
(* raises, and a raise jumps to the except branch.                         *)
(***************************************************************************)
InitLoading ==
  /\ configured \in BOOLEAN
  /\ dbWorkspace \in (IF configured THEN BOOLEAN ELSE {FALSE})
  /\ dbCollections = IF dbWorkspace THEN <<default_collection, esett_collection>> ELSE <<>>
  /\ dbEntities = IF dbWorkspace
                    THEN <<RowOf([id |-> EntityUuidPool[1], name |-> <<"a">>], "TimeSeries"),
                           RowOf([id |-> EntityUuidPool[2], name |-> <<"a">>], "Site")>>
                  ELSE <<>>
  /\ dbMembership = IF dbWorkspace
                      THEN <<[collection_id |-> "default-timeseries",
                              entity_id |-> EntityUuidPool[1]]>>
                    ELSE <<>>
  /\ InitSession

LoadingPcs == {"workspace", "timeseries", "collections", "membership", "sites", "assets"}

loadingFrame ==
  /\ lastLoad' = "none"
  /\ UNCHANGED <<storeVars, workspace_loaded, registryVars, selected_object_type,
                 sessions, gatewayVars, search, fetches, default_collection_id>>

\* _entities_loaded as the except branch leaves it, without the assignment
load_except_unmarked(loaded) == loaded

\* the except branch (lines 164-166): _entities_loaded = True
load_except(loaded) == TRUE

\* a gateway call of caller k at position pc returns and the caller moves on
\* to next, or raises and the except branch ends the call
LoadingCall(k, pc, next, raises) ==
  /\ callers[k].pc = pc
  /\ GatewayCharge(IF raises THEN 1 ELSE 0)
  /\ lastOp' = Op("loading", "none", "none", pc)
  /\ SetCaller(k, IF raises THEN "done" ELSE next, TRUE, NoCache)
  /\ loadingFrame

\* line 77: the check of _entities_loaded at the start of a call
loading_start(k) ==
  /\ callers[k].pc = "start"
  /\ SetCaller(k, IF entities_loaded THEN "done" ELSE "workspace", ~entities_loaded, NoCache)
  /\ lastOp' = Op("loading", "none", "none", "start")
  /\ UNCHANGED <<time_series_entities, site_entities, asset_entities, entities_loaded,
                 faults>>
  /\ loadingFrame

\* on_load_entity_page lines 314-316: clear _entities_loaded, then load
loading_page(k) ==
  /\ callers[k].pc \in {"start", "done"}
  /\ entities_loaded' = FALSE
  /\ SetCaller(k, "workspace", TRUE, NoCache)
  /\ lastOp' = Op("loading", "none", "none", "page")
  /\ UNCHANGED <<time_series_entities, site_entities, asset_entities, faults>>
  /\ loadingFrame

\* lines 84-87: get_workspace; no row ends the call with the flag set
loading_workspace(k, raises) ==
  /\ LoadingCall(k, "workspace", IF get_workspace THEN "timeseries" ELSE "done", raises)
  /\ entities_loaded' =
       IF raises THEN load_except(entities_loaded)
       ELSE IF get_workspace THEN entities_loaded ELSE TRUE
  /\ UNCHANGED <<time_series_entities, site_entities, asset_entities>>

\* line 92: get_entities_by_type("TimeSeries")
loading_timeseries(k, raises) ==
  /\ LoadingCall(k, "timeseries", "collections", raises)
  /\ entities_loaded' = IF raises THEN load_except(entities_loaded) ELSE entities_loaded
  /\ UNCHANGED <<time_series_entities, site_entities, asset_entities>>

\* line 111: get_collections
loading_collections(k, raises) ==
  /\ LoadingCall(k, "collections", "membership", raises)
  /\ entities_loaded' = IF raises THEN load_except(entities_loaded) ELSE entities_loaded
  /\ UNCHANGED <<time_series_entities, site_entities, asset_entities>>

\* lines 114-122: get_entity_ids_for_collection for each collection, then the
\* assignment of _time_series_entities
loading_membership(k, raises) ==
  /\ LoadingCall(k, "membership", "sites", raises)
  /\ entities_loaded' = IF raises THEN load_except(entities_loaded) ELSE entities_loaded
  /\ time_series_entities' =
       IF raises THEN time_series_entities
       ELSE entities_by_collection(dbCollections, dbEntities, dbMembership)
  /\ UNCHANGED <<site_entities, asset_entities>>

\* lines 125-140: get_entities_by_type("Site") and the assignment of _site_entities
loading_sites(k, raises) ==
  /\ LoadingCall(k, "sites", "assets", raises)
  /\ entities_loaded' = IF raises THEN load_except(entities_loaded) ELSE entities_loaded
  /\ site_entities' = IF raises THEN site_entities ELSE entities_of_type(dbEntities, "Site")
  /\ UNCHANGED <<time_series_entities, asset_entities>>

\* lines 143-162: get_entities_by_type("Asset"), the assignment of
\* _asset_entities and _entities_loaded = True
loading_assets(k, raises) ==
  /\ LoadingCall(k, "assets", "done", raises)
  /\ entities_loaded' = IF raises THEN load_except(entities_loaded) ELSE TRUE
  /\ asset_entities' = IF raises THEN asset_entities ELSE entities_of_type(dbEntities, "Asset")
  /\ UNCHANGED <<time_series_entities, site_entities>>

\* the pending gateway call of caller k returns or raises
LoadingReturn(k) ==
  \E raises \in BOOLEAN :
    \/ loading_workspace(k, raises)
    \/ loading_timeseries(k, raises)
    \/ loading_collections(k, raises)
    \/ loading_membership(k, raises)
    \/ loading_sites(k, raises)
    \/ loading_assets(k, raises)

NextLoading ==
  \/ \E k \in CallerIds : loading_start(k)
  \/ \E k \in CallerIds : loading_page(k)
  \/ \E k \in CallerIds : LoadingReturn(k)

\* every gateway call returns or raises
SpecLoading ==
  InitLoading /\ [][NextLoading]_vars /\ \A k \in CallerIds : WF_vars(LoadingReturn(k))

(***************************************************************************)
(* A page reload over a store whose membership table is also written       *)
(* through the gateway by other clients.                                    *)
(***************************************************************************)
InitReload ==
  /\ configured = TRUE
  /\ dbWorkspace = TRUE
  /\ dbCollections = <<default_collection, esett_collection>>
  /\ dbEntities = <<RowOf([id |-> EntityUuidPool[1], name |-> <<"a">>], "Site")>>
  /\ dbMembership = <<>>
  /\ InitSession

StoredEntityIds == {dbEntities[i].id : i \in DOMAIN dbEntities}

NextReload ==
  \/ \E entity_name \in RouteEntityNames, fail \in LoadFailInputs :
       on_load_entity_page(entity_name, fail)
  \/ \E fail \in 0..SaveEntityCalls : create_entity(<<"a">>, TRUE, fail)
  \/ \E c \in BootstrapCollectionIds, e \in StoredEntityIds, raises \in BOOLEAN :
       membership_add(c, e, raises)
  \/ \E c \in BootstrapCollectionIds, e \in StoredEntityIds, raises \in BOOLEAN :
       membership_remove(c, e, raises)

SpecReload == InitReload /\ [][NextReload]_vars

(***************************************************************************)
(* One add_entity_to_collection racing one set_collection_entities.        *)
(***************************************************************************)
InitRace ==
  /\ configured = TRUE
  /\ dbWorkspace = TRUE
  /\ dbCollections = <<default_collection, esett_collection>>
  /\ dbEntities = <<>>
  /\ dbMembership \in {<<>>, <<[collection_id |-> "default-timeseries",
                                entity_id |-> EntityUuidPool[1]]>>}
  /\ InitSession

\* add_entity_to_collection by another caller: at most one while a
\* set_collection_entities call is between its two statements
race_add(collection_id, entity_id, raises) ==
  /\ replace.pc = "deleted" => ~replace.interfered
  /\ membership_add(collection_id, entity_id, raises)

NextRace ==
  \/ \E c \in BootstrapCollectionIds, e \in MemberIds, raises \in BOOLEAN :
       race_add(c, e, raises)
  \/ \E c \in BootstrapCollectionIds, ids \in IdLists, raises \in BOOLEAN :
       replace_delete(c, ids, raises)
  \/ \E raises \in BOOLEAN : replace_insert(raises)

SpecRace == InitRace /\ [][NextRace]_vars

(***************************************************************************)
(* _save_entities_to_db over the cached lists it can be given.             *)
(***************************************************************************)
\* cached lists of a collection: up to MaxCachedList entities
MaxCachedList == 2
CachedLists ==
  {l \in UNION {[1..n -> {[id |-> e, name |-> <<"a">>] : e \in MemberIds}] :
                  n \in 0..MaxCachedList} : NoDuplicates(l)}

MembershipTables ==
  {<<>>,
   <<[collection_id |-> "esett-data", entity_id |-> EntityUuidPool[1]]>>,
   <<[collection_id |-> "default-timeseries", entity_id |-> EntityUuidPool[1]],
     [collection_id |-> "esett-data", entity_id |-> EntityUuidPool[2]]>>}

InitBulkSave ==
  /\ configured = TRUE
  /\ dbWorkspace = TRUE
  /\ dbCollections = <<default_collection, esett_collection>>
  /\ dbMembership \in MembershipTables
  /\ dbEntities = [i \in DOMAIN dbMembership |->
                     RowOf([id |-> dbMembership[i].entity_id, name |-> <<"a">>],
                           "TimeSeries")]
  /\ InitSession

\* the cached list of a collection as the handlers of EntitiesState have
\* left it
cache_list(collection_id, entities) ==
  /\ time_series_entities' = DictSet(time_series_entities, collection_id, entities)
  /\ lastOp' = Op("cache_list", "none", "none", collection_id)
  /\ lastLoad' = "none"
  /\ UNCHANGED <<storeVars, workspace_loaded, registryVars, site_entities, asset_entities,
                 entities_loaded, selected_object_type, fetches, faults, otherVars>>

\* EntitiesState._save_entities_to_db(collection_id)
bulk_save(collection_id, fail) ==
  LET sv == save_entities_to_db(time_series_entities, collection_id, get_workspace,
              dbEntities, dbMembership, fail)
  IN /\ GatewayCharge(Faulty(fail))
     /\ dbEntities' = sv.entTbl
     /\ dbMembership' = sv.mem
     /\ lastOp' = Op("save_entities_to_db", "none", sv.status, collection_id)
     /\ lastLoad' = "none"
     /\ UNCHANGED <<configured, dbWorkspace, dbCollections>>
     /\ UNCHANGED <<workspace_loaded, registryVars, cacheVars, otherVars>>

NextBulkSave ==
  \/ \E c \in BootstrapCollectionIds, entities \in CachedLists : cache_list(c, entities)
  \/ \E c \in BootstrapCollectionIds, fail \in 0..SaveEntitiesCalls : bulk_save(c, fail)

SpecBulkSave == InitBulkSave /\ [][NextBulkSave]_vars

(***************************************************************************)
(* Two callers of upsert_entity / upsert_collection on one id: the get and *)
(* the update or insert are two requests, so the callers interleave.       *)
(***************************************************************************)
UpsertTables == {"entities", "collections"}

\* the row caller k sends
UpsertData(table, k) ==
  IF table = "entities"
    THEN RowOf([id |-> EntityUuidPool[1], name |-> IF k = 1 THEN <<"a">> ELSE <<"b">>],
               "TimeSeries")
  ELSE [default_collection EXCEPT !.id = CollectionUuidPool[1],
                                  !.name = IF k = 1 THEN "Wind Farms" ELSE "Solar Parks",
                                  !.is_default = FALSE]

TableOf(table) == IF table = "entities" THEN dbEntities ELSE dbCollections

InitUpsert ==
  /\ configured = TRUE
  /\ dbWorkspace = TRUE
  /\ dbCollections = <<default_collection, esett_collection>>
  /\ dbEntities = <<>>
  /\ dbMembership = <<>>
  /\ workspace_loaded = FALSE
  /\ default_collection_id = ""
  /\ collections = <<>>
  /\ collections_loaded = FALSE
  /\ selected_collection_id = ""
  /\ time_series_entities = EmptyDict
  /\ site_entities = <<>>
  /\ asset_entities = <<>>
  /\ entities_loaded = FALSE
  /\ selected_object_type = ""
  /\ lastOp = Op("init", "none", "none", "")
  /\ lastLoad = "none"
  /\ faults = 0
  /\ sessions = [s \in SessionIds |-> [colls |-> <<>>, loaded |-> FALSE]]
  /\ callers = [k \in CallerIds |-> [pc |-> "start", table |-> "entities",
                                      existing |-> FALSE, fault |-> FALSE]]
  /\ membershipCall = NoCall
  /\ replace = NoReplace
  /\ search = NoSearch
  /\ fetches = 0

upsertFrame ==
  /\ lastLoad' = "none"
  /\ UNCHANGED <<configured, dbWorkspace, dbMembership, workspace_loaded, registryVars,
                 cacheVars, sessions, gatewayVars, search, default_collection_id>>

\* a new call of upsert_entity / upsert_collection by caller k
upsert_call(k, table) ==
  /\ callers[k].pc \in {"start", "done", "raised"}
  /\ callers' = [callers EXCEPT ![k] = [pc |-> "get", table |-> table,
                                        existing |-> FALSE, fault |-> FALSE]]
  /\ lastOp' = Op("upsert_call", "none", "none", table)
  /\ UNCHANGED <<dbEntities, dbCollections, faults>>
  /\ upsertFrame

\* the first line of upsert: get_entity / get_collection
upsert_get(k, raises) ==
  LET c == callers[k]
      id == UpsertData(c.table, k).id
  IN /\ c.pc = "get"
     /\ GatewayCharge(IF raises THEN 1 ELSE 0)
     /\ callers' = [callers EXCEPT ![k] =
          IF raises THEN [c EXCEPT !.pc = "raised", !.fault = TRUE]
          ELSE [c EXCEPT !.pc = "write", !.existing = IndexOfId(TableOf(c.table), id, 1) > 0]]
     /\ lastOp' = Op("upsert_get", "none", "none", c.table)
     /\ UNCHANGED <<dbEntities, dbCollections>>
     /\ upsertFrame

\* create_entity / create_collection of the gateway: an insert into a table
\* whose primary key is id
insert_row(tbl, row) ==
  IF IndexOfId(tbl, row.id, 1) > 0 THEN [tbl |-> tbl, raised |-> TRUE]
  ELSE [tbl |-> Append(tbl, row), raised |-> FALSE]

\* update_entity / update_collection of the gateway: update ... eq("id", id)
update_row(tbl, row) ==
  [i \in DOMAIN tbl |-> IF tbl[i].id = row.id THEN row ELSE tbl[i]]

\* the rest of upsert: update when the get returned a row, insert otherwise
upsert_write(k, raises) ==
  LET c == callers[k]
      row == UpsertData(c.table, k)
      tbl == TableOf(c.table)
      ins == insert_row(tbl, row)
      after == IF raises THEN tbl
               ELSE IF c.existing THEN update_row(tbl, row)
               ELSE ins.tbl
      failed == raises \/ (~c.existing /\ ins.raised)
  IN /\ c.pc = "write"
     /\ GatewayCharge(IF raises THEN 1 ELSE 0)
     /\ dbEntities' = IF c.table = "entities" THEN after ELSE dbEntities
     /\ dbCollections' = IF c.table = "collections" THEN after ELSE dbCollections
     /\ callers' = [callers EXCEPT ![k] =
          [c EXCEPT !.pc = IF failed THEN "raised" ELSE "done", !.fault = raises]]
     /\ lastOp' = Op("upsert_write", "none", IF failed THEN "failed" ELSE "ok", c.table)
     /\ upsertFrame

NextUpsert ==
  \/ \E k \in CallerIds, table \in UpsertTables : upsert_call(k, table)
  \/ \E k \in CallerIds, raises \in BOOLEAN : upsert_get(k, raises)
  \/ \E k \in CallerIds, raises \in BOOLEAN : upsert_write(k, raises)

SpecUpsert == InitUpsert /\ [][NextUpsert]_vars

(***************************************************************************)
(* Properties                                                              *)
(***************************************************************************)
DefaultCount(colls) == Cardinality({i \in DOMAIN colls : colls[i].is_default})

IdsOf(entities) == {entities[i].id : i \in DOMAIN entities}

WriteCommands ==
  {"create_entity", "create_collection", "set_collection_emoji",
   "toggle_collection_favorite", "set_default_collection"}

\* C1: after any sequence of set_default_collection calls on a registry that
\* started from the bootstrap or from a load with at most one default, at
\* most one collection of the in-memory registry has is_default = TRUE
C1_SingleDefaultInMemory == DefaultCount(collections) <= 1

\* a set_default_collection that moved the default to another collection
C1_Witness ==
  /\ lastOp.op = "set_default_collection"
  /\ lastOp.arg = "esett-data"
  /\ \E i \in DOMAIN collections :
       collections[i].id = "esett-data" /\ collections[i].is_default
  /\ DefaultCount(collections) = 1

\* C4: the list cached for a collection holds only entities with a Membership
\* row for that collection in the store, and no entity id twice
C4_MembershipWellFormed ==
  dbWorkspace =>
  \A c \in DOMAIN time_series_entities :
    LET entities == time_series_entities[c]
    IN /\ \A i, j \in DOMAIN entities : entities[i].id = entities[j].id => i = j
       /\ \A i \in DOMAIN entities : HasMembership(dbMembership, c, entities[i].id)

\* the TimeSeries entity of the last create_entity is listed under default-timeseries
CreatedVisible ==
  lastOp.arg \in IdsOf(DictGet(time_series_entities, "default-timeseries"))

\* C5: after create_entity for a TimeSeries succeeds the entity is listed
\* under its collection; when the Entity or the Membership persist step
\* fails it is absent from that list
C5_OrphanFreeCreate ==
  (lastOp.op = "create_entity" /\ lastOp.outcome = "success"
     /\ selected_object_type = "TimeSeries")
    => /\ lastOp.persist = "ok" => CreatedVisible
       /\ lastOp.persist = "failed" => ~CreatedVisible

\* C6: create_entity with an empty or whitespace-only name reports a
\* validation error, makes no gateway call and leaves the store and the
\* entity cache unchanged
C6_EmptyNameRejected ==
  [][lastOp'.op = "create_entity" =>
       \A name \in {n \in EntityNameInputs : Strip(n) = <<>>} :
         \A capacityOk \in BOOLEAN, fail \in 0..SaveEntityCalls :
           create_entity(name, capacityOk, fail)
             => /\ lastOp'.outcome = "error"
                /\ lastOp'.persist = "none"
                /\ UNCHANGED <<dbEntities, dbMembership, dbCollections>>
                /\ UNCHANGED <<time_series_entities, site_entities, asset_entities>>]_vars

\* a whitespace-only name was rejected while the cache held entities
C6_Witness ==
  /\ lastOp = Op("create_entity", "error", "none", "name")
  /\ selected_object_type = "TimeSeries"
  /\ DictGet(time_series_entities, "default-timeseries") # <<>>

\* C7: a write command whose persist call failed leaves the in-memory cache
\* and registry as they were before the command
C7_MemoryUpdatedAfterPersist ==
  [][(lastOp'.op \in WriteCommands /\ lastOp'.persist = "failed")
       => UNCHANGED <<collections, time_series_entities, site_entities,
                      asset_entities>>]_vars

\* C8: a write command whose persist step failed reports a failure
C8_WriteFailureSurfaced ==
  (lastOp.op \in WriteCommands /\ lastOp.persist = "failed")
    => lastOp.outcome = "error"

\* C9: when a gateway call fails or the workspace is absent during the load
\* of on_load_entity_page, loaded is set and every collection and type
\* registry reads as empty
C9_FailedLoadReadsEmpty ==
  (lastOp.op = "on_load_entity_page" /\ lastLoad \in {"raised", "no_workspace"})
    => /\ entities_loaded
       /\ \A c \in DOMAIN time_series_entities : time_series_entities[c] = <<>>
       /\ site_entities = <<>>
       /\ asset_entities = <<>>

\* C10: between two invalidations at most one remote fetch is made; once
\* loaded is true it stays true, and no call fetches, until
\* on_load_entity_page resets the flag
C10_LoadOnce ==
  [][/\ fetches' <= 1
     /\ (entities_loaded /\ lastOp'.op # "on_load_entity_page")
          => (entities_loaded' /\ fetches' = fetches)]_vars

\* a second ensureLoaded returned the cached content without fetching
C10_Witness ==
  /\ lastOp.op = "entities_on_load"
  /\ lastLoad = "cached"
  /\ entities_loaded
  /\ fetches = 1

\* C2: after any interleaving of completed set_default_collection calls of
\* several sessions, each on its own registry copy and each persist
\* succeeding, at most one collection row of the store has is_default = TRUE
C2_StoreSingleDefault == DefaultCount(dbCollections) <= 1

\* C3: K concurrent first calls of _load_entities_from_db that all passed
\* the check while loaded was false make exactly one remote fetch, and all
\* callers observe the same cache content
C3_SingleFlight ==
  (\A k \in CallerIds : callers[k].pc = "done" /\ callers[k].sawUnloaded)
    => /\ fetches = 1
       /\ \A k1, k2 \in CallerIds : callers[k1].observed = callers[k2].observed

MembershipCount(mem, collection_id, entity_id) ==
  Cardinality({i \in DOMAIN mem :
                 mem[i].collection_id = collection_id /\ mem[i].entity_id = entity_id})

\* C11: add_entity_to_collection(c, e) never raises and leaves exactly one
\* row (c, e), also when the row existed before the call (the table is then
\* unchanged); remove_entity_from_collection(c, e) with no row (c, e) leaves
\* the table unchanged and does not raise
C11_MembershipIdempotent ==
  [][LET call == membershipCall'
         c == call.collection_id
         e == call.entity_id
     IN /\ (call.op = "add_entity_to_collection" /\ configured)
             => /\ call.result # "raised"
                /\ MembershipCount(dbMembership', c, e) <= 1
                /\ ~call.fault => MembershipCount(dbMembership', c, e) = 1
                /\ HasMembership(dbMembership, c, e)
                     => dbMembership' = dbMembership /\ call.result = "false"
        /\ (call.op = "remove_entity_from_collection" /\ ~call.fault
              /\ ~HasMembership(dbMembership, c, e))
             => /\ call.result # "raised"
                /\ dbMembership' = dbMembership]_vars

\* a second add_entity_to_collection(c, e) returned False and one row exists
C11_Witness ==
  /\ configured
  /\ membershipCall.op = "add_entity_to_collection"
  /\ membershipCall.result = "false"
  /\ ~membershipCall.fault
  /\ MembershipCount(dbMembership, membershipCall.collection_id,
                     membershipCall.entity_id) = 1
  /\ Len(dbMembership) > 1

\* the same letter up to case
SameLetter(a, b) ==
  \/ a = b
  \/ a \in DOMAIN Lower /\ b \in DOMAIN Lower /\ Lower[a] = Lower[b]

\* q is a case-insensitive substring of field
ContainsIgnoringCase(q, field) ==
  \E k \in 0..(Len(field) - Len(q)) : \A j \in 1..Len(q) : SameLetter(q[j], field[k + j])

SearchableFields(x) ==
  {x.name, x.description, x.unit, x.site_name, FloatStr(x.value), x.type}

\* C12: the filtered view is the sub-list of L, in the order of L, of the
\* entities that have q as a case-insensitive substring of a searchable
\* field; an empty q returns L unchanged
C12_SearchFilterExact ==
  search.shown =>
    LET L == search.items
        q == search.query
        keep == {i \in DOMAIN L : \E f \in SearchableFields(L[i]) : ContainsIgnoringCase(q, f)}
        rank(i) == Cardinality({j \in keep : j <= i})
    IN /\ Len(search.result) = Cardinality(keep)
       /\ \A i \in keep : search.result[rank(i)] = L[i]
       /\ q = <<>> => search.result = L

\* a mixed-case query kept the second of two entities and dropped the first
C12_Witness ==
  /\ search.shown
  /\ search.query = <<"W", "F">>
  /\ Len(search.items) = 2
  /\ Len(search.result) = 1
  /\ search.result[1] = search.items[2]
  /\ search.items[1] # search.items[2]

\* C13: after set_default_collection(c) for a collection c of the registry,
\* c has is_default = TRUE and every other collection of the registry has
\* is_default = FALSE, whichever collection was default before
C13_SetDefaultPostcondition ==
  (lastOp.op = "set_default_collection"
     /\ IndexOfId(collections, lastOp.arg, 1) > 0)
    => \A i \in DOMAIN collections :
         collections[i].is_default <=> collections[i].id = lastOp.arg

\* the default moved from esett-data, still flagged in the store because the
\* persist failed, to default-timeseries
C13_Witness ==
  /\ lastOp.op = "set_default_collection"
  /\ lastOp.arg = "default-timeseries"
  /\ lastOp.persist = "failed"
  /\ \E i \in DOMAIN dbCollections :
       dbCollections[i].id = "esett-data" /\ dbCollections[i].is_default
  /\ \E i \in DOMAIN collections :
       collections[i].id = "default-timeseries" /\ collections[i].is_default
  /\ \E i \in DOMAIN collections :
       collections[i].id = "esett-data" /\ ~collections[i].is_default

\* C14: create_collection with an empty name reports a validation error,
\* appends nothing to the registry and makes no persist call
C14_EmptyCollectionNameRejected ==
  [][lastOp'.op = "create_collection" =>
       \A collection_id \in NewCollectionIds, object_type \in ObjectTypes,
          fail \in 0..SaveCollectionCalls :
         create_collection(collection_id, "", object_type, fail)
           => /\ lastOp'.outcome = "error"
              /\ lastOp'.persist = "none"
              /\ UNCHANGED <<collections, dbCollections>>]_vars

\* the column keys of the static default schema of each object type
StaticSchema ==
  [TimeSeries |-> <<"name", "site_name", "timestamp", "value", "unit", "type">>,
   Site |-> <<"name", "type", "capacity", "status">>,
   Asset |-> <<>>]

\* C15: create_collection(name, objectType) appends exactly one collection,
\* with an id no registry entry had, view_type = table, is_default = FALSE
\* and the static default schema of objectType, for each of TimeSeries, Site
\* and Asset; the entries the registry had are unchanged
C15_CreateCollectionAttributes ==
  [][lastOp'.op = "create_collection" =>
       \A collection_id \in NewCollectionIds, name \in CollectionNameInputs,
          object_type \in ObjectTypes, fail \in 0..SaveCollectionCalls :
         create_collection(collection_id, name, object_type, fail)
           => /\ Len(collections') = Len(collections) + 1
              /\ SubSeq(collections', 1, Len(collections)) = collections
              /\ LET new == collections'[Len(collections')]
                 IN /\ \A i \in DOMAIN collections : collections[i].id # new.id
                    /\ new.name = name
                    /\ new.object_type = object_type
                    /\ new.view_type = "table"
                    /\ new.is_default = FALSE
                    /\ new.attributes = StaticSchema[object_type]]_vars

\* an Asset collection was appended to the two collections of the registry
C15_Witness ==
  /\ lastOp.op = "create_collection"
  /\ Len(collections) = 3
  /\ collections[3].object_type = "Asset"
  /\ collections[3].id = lastOp.arg
  /\ collections[3].attributes = <<>>

\* C16: on an empty workspace (the store holds no collection, or no store
\* is reachable) the first listing of the collections gives exactly "Time
\* Series" (default-timeseries, table view) and "Esett data" (esett-data,
\* card view), and the entity list of default-timeseries is empty
C16_EmptyWorkspaceBootstrap ==
  [][/\ (lastOp'.op = "collections_on_load" /\ collections = <<>>
           /\ ~collections_loaded /\ dbCollections = <<>>)
          => /\ Len(collections') = 2
             /\ collections'[1].id = "default-timeseries"
             /\ collections'[1].name = "Time Series"
             /\ collections'[1].view_type = "table"
             /\ collections'[2].id = "esett-data"
             /\ collections'[2].name = "Esett data"
             /\ collections'[2].view_type = "time_series_cards"
     /\ (lastOp'.op = "entities_on_load" /\ dbEntities = <<>> /\ dbMembership = <<>>)
          => DictGet(time_series_entities', "default-timeseries") = <<>>]_vars

\* both on_load handlers ran on a store without collections and entities
C16_Witness ==
  /\ lastOp.op = "entities_on_load"
  /\ collections_loaded
  /\ entities_loaded
  /\ Len(collections) = 2
  /\ collections[2].view_type = "time_series_cards"
  /\ "default-timeseries" \in DOMAIN time_series_entities
  /\ time_series_entities["default-timeseries"] = <<>>
  /\ dbCollections = <<>>

\* C17: without a configured store, every read gives what an empty store
\* gives and no command raises or writes: the registry and the entity cache
\* after a load are those of a load that found no workspace row and no rows,
\* the membership reads are empty, every save is skipped, and the store
\* itself is untouched
C17_NotConfiguredReadsEmpty ==
  [][~configured =>
       LET cl == initialize_default_collections(collections, collections_loaded,
                   FALSE, <<>>, NoFail, NoFail)
           page == load_entities_from_db(time_series_entities, site_entities,
                     asset_entities, FALSE, FALSE, <<>>, <<>>, <<>>, NoFail)
           ld == load_entities_from_db(time_series_entities, site_entities,
                   asset_entities, entities_loaded, FALSE, <<>>, <<>>, <<>>, NoFail)
       IN /\ UNCHANGED storeVars
          /\ faults' = faults
          /\ lastOp'.persist \in {"none", "skipped"}
          /\ lastOp'.op = "collections_on_load"
               => collections' = cl.colls /\ collections_loaded' = cl.loaded
          /\ lastOp'.op = "on_load_entity_page"
               => /\ time_series_entities' = page.ts
                  /\ site_entities' = page.sites
                  /\ asset_entities' = page.assets
          /\ lastOp'.op = "entities_on_load"
               => /\ time_series_entities' =
                       IF DOMAIN ld.ts = {}
                         THEN DictSet(DictSet(ld.ts, "default-timeseries", <<>>),
                                      "esett-data", esett_entities)
                       ELSE ld.ts
                  /\ site_entities' = ld.sites
                  /\ asset_entities' = ld.assets
          /\ (lastOp'.op = "membership"
                /\ membershipCall'.op \in {"get_entity_ids_for_collection",
                                           "get_entity_count_for_collection"})
               => membershipCall'.result = "empty"]_vars

\* a session without configuration loaded its registry and its entities and
\* read the members of default-timeseries, over a store that holds a
\* workspace row, collections, entities and a membership row
C17_Witness ==
  /\ ~configured
  /\ dbWorkspace
  /\ Len(dbCollections) = 2
  /\ dbCollections[2].is_default
  /\ \E i \in 1..Len(dbMembership) : dbMembership[i].collection_id = "default-timeseries"
  /\ collections_loaded
  /\ Len(collections) >= 2
  /\ ~collections[2].is_default
  /\ entities_loaded
  /\ membershipCall.op = "get_entity_ids_for_collection"
  /\ membershipCall.collection_id = "default-timeseries"
  /\ membershipCall.result = "empty"

\* the rows of mem that belong to other collections than collection_id
OtherRows(mem, collection_id) ==
  SelectSeq(mem, LAMBDA m : m.collection_id # collection_id)

\* the entity ids of the rows of collection_id, as a set
MemberSet(mem, collection_id) ==
  {mem[i].entity_id : i \in {j \in DOMAIN mem : mem[j].collection_id = collection_id}}

\* C18: when set_collection_entities(c, ids) returns True and no other write
\* ran meanwhile, the rows of c are exactly the ids of the list, one row per
\* id, whatever c held before, and the rows of the other collections are the
\* ones they were
C18_SetCollectionEntitiesPostcondition ==
  [][LET call == membershipCall'
         c == call.collection_id
     IN /\ call.op = "set_collection_entities:delete"
             => /\ OtherRows(dbMembership', c) = OtherRows(dbMembership, c)
                /\ MemberSet(dbMembership', c) = {}
        /\ (call.op = "set_collection_entities" /\ call.result = "true"
              /\ replace.pc = "deleted" /\ ~replace.interfered)
             => /\ MemberSet(dbMembership', c) = Range(replace.entity_ids)
                /\ \A e \in MemberSet(dbMembership', c) :
                     MembershipCount(dbMembership', c, e) = 1
                /\ OtherRows(dbMembership', c) = OtherRows(dbMembership, c)]_vars

\* set_collection_entities returned True on a collection that had members,
\* which now has two, while the other collection keeps a row
C18_Witness ==
  /\ membershipCall.op = "set_collection_entities"
  /\ membershipCall.result = "true"
  /\ replace.hadMembers
  /\ Cardinality(MemberSet(dbMembership, membershipCall.collection_id)) = 2
  /\ OtherRows(dbMembership, membershipCall.collection_id) # <<>>

\* C20: set_collection_entities is two statements: after the delete the
\* collection has no row, a reader of the store in between gets no member,
\* and an insert that fails leaves the table as the delete left it
C20_ReplaceNotAtomic ==
  [][LET call == membershipCall'
         c == call.collection_id
     IN /\ call.op = "set_collection_entities:delete"
             => /\ get_entity_ids_for_collection(dbMembership', c) = <<>>
                /\ replace'.pc = "deleted"
        /\ (call.op = "get_entity_ids_for_collection" /\ replace.pc = "deleted"
              /\ c = replace.collection_id /\ ~replace.interfered)
             => call.result = "empty"
        /\ (call.op = "set_collection_entities" /\ call.result = "raised"
              /\ replace.pc = "deleted")
             => /\ dbMembership' = dbMembership
                /\ ~replace.interfered
                     => get_entity_ids_for_collection(dbMembership', c) = <<>>]_vars

\* a collection with members was being replaced by a non-empty list, a reader
\* saw no member in between, the insert failed and the collection is empty
C20_Witness ==
  /\ membershipCall.op = "set_collection_entities"
  /\ membershipCall.result = "raised"
  /\ membershipCall.fault
  /\ replace.hadMembers
  /\ replace.seen = "zero"
  /\ get_entity_ids_for_collection(dbMembership, membershipCall.collection_id) = <<>>

\* C19: the registry fetches its collections from the store at most once: a
\* fetch happens only while the registry is empty and not marked loaded, it
\* marks the registry loaded whether it failed, found nothing or found rows,
\* the mark is never taken back, and every later call leaves the in-memory
\* list and the store as they are
C19_RegistryHydratesOnce ==
  [][/\ collections_loaded => collections_loaded'
     /\ lastOp'.op = "collections_on_load"
          => /\ Len(collections') > 0
             /\ lastOp'.arg = "fetched"
                  => ~collections_loaded /\ collections = <<>> /\ collections_loaded'
             /\ (collections_loaded \/ collections # <<>>)
                  => /\ lastOp'.arg = ""
                     /\ collections' = collections
                     /\ dbCollections' = dbCollections]_vars

\* a later call found the registry loaded and fetched nothing, although the
\* first fetch brought no row: the registry holds the two built-in
\* collections and the store holds none
C19_Witness ==
  /\ lastOp.op = "collections_on_load"
  /\ lastOp.arg = ""
  /\ collections_loaded
  /\ configured
  /\ Len(collections) = 2
  /\ dbCollections = <<>>

\* the is_default flag of the row of collection_id in tbl (FALSE: no row)
FlaggedIn(tbl, collection_id) ==
  \E i \in DOMAIN tbl : tbl[i].id = collection_id /\ tbl[i].is_default

\* every collection of the registry has a row with the same is_default flag
\* in the store, and exactly one is flagged
StoreAgreesOnDefault ==
  /\ DefaultCount(collections) = 1
  /\ DefaultCount(dbCollections) = 1
  /\ \A i \in DOMAIN collections :
       /\ IndexOfId(dbCollections, collections[i].id, 1) > 0
       /\ FlaggedIn(dbCollections, collections[i].id) = collections[i].is_default

\* C21: set_default_collection persists the clear of the old default and the
\* set of the new one as two calls, neither of which stops or undoes the
\* other: in memory the new default is always set; when both calls are
\* persisted the store holds the new default alone; when one of them is
\* persisted and the other fails the store holds zero defaults (the set
\* failed) or two (the clear failed)
C21_SetDefaultTwoPersistCalls ==
  [][(/\ lastOp'.op = "set_default_collection"
      /\ configured /\ dbWorkspace
      /\ StoreAgreesOnDefault
      /\ IndexOfId(collections, lastOp'.arg, 1) > 0
      /\ ~FlaggedIn(collections, lastOp'.arg))
       => /\ \A i \in DOMAIN collections' :
               collections'[i].is_default <=> collections'[i].id = lastOp'.arg
          /\ lastOp'.persist = "ok"
               => /\ DefaultCount(dbCollections') = 1
                  /\ FlaggedIn(dbCollections', lastOp'.arg)
          /\ (lastOp'.persist = "failed" /\ dbCollections' # dbCollections)
               => \/ DefaultCount(dbCollections') = 0
                  \/ /\ DefaultCount(dbCollections') = 2
                     /\ FlaggedIn(dbCollections', lastOp'.arg)
          /\ (lastOp'.persist = "failed" /\ dbCollections' = dbCollections)
               => DefaultCount(dbCollections') = 1]_vars

\* the persist of the clear failed and the persist of the set went through:
\* the store flags two collections while the registry flags one
C21_Witness ==
  /\ lastOp.op = "set_default_collection"
  /\ lastOp.persist = "failed"
  /\ DefaultCount(dbCollections) = 2
  /\ FlaggedIn(dbCollections, lastOp.arg)
  /\ DefaultCount(collections) = 1

\* C22: a call of _load_entities_from_db that has passed the check of
\* _entities_loaded ends, and ends with _entities_loaded = TRUE, whether its
\* gateway calls succeed, one of them raises, or there is no workspace row
C22_LoadingReachesLoaded ==
  \A k \in CallerIds :
    (callers[k].pc \in LoadingPcs) ~> (callers[k].pc = "done" /\ entities_loaded)

\* a call ended in the except branch and the cache is marked loaded
C22_Witness ==
  /\ \E k \in CallerIds : callers[k].pc = "done" /\ callers[k].sawUnloaded
  /\ lastOp.op = "loading"
  /\ lastOp.arg \in LoadingPcs
  /\ faults > 0
  /\ entities_loaded

\* the ids of a list of entities, in order
IdSeq(entities) == [i \in DOMAIN entities |-> entities[i].id]

\* the members of collection_id whose entity has a row of one of the types
MembersOfTypes(mem, entTbl, collection_id, types) ==
  SelectSeq(get_entity_ids_for_collection(mem, collection_id),
            LAMBDA e : \E i \in DOMAIN entTbl :
                         entTbl[i].id = e /\ entTbl[i].entity_type \in types)

\* C23: right after on_load_entity_page whose gateway calls all succeeded,
\* the cached list of every collection of the store holds exactly the
\* entities with a membership row for it, in the order of the rows, whatever
\* their type and whatever the cache held before
C23_ReloadMatchesMembership ==
  [][(lastOp'.op = "on_load_entity_page" /\ lastLoad' = "ok")
       => \A i \in DOMAIN dbCollections :
            LET c == dbCollections[i].id
            IN /\ c \in DOMAIN time_series_entities'
               /\ IdSeq(time_series_entities'[c]) =
                    MembersOfTypes(dbMembership', dbEntities', c,
                                   {"TimeSeries", "Site", "Asset"})]_vars

\* C24: when add_entity_to_collection(c, e) ran between the delete and the
\* insert of set_collection_entities(c, ids), ids without a repeated id and
\* no request failing in transport, the rows of c at the end are those of one
\* of the two serial orders: the ids, or the ids and e
C24_ConcurrentAddSerializable ==
  [][(/\ membershipCall'.op = "set_collection_entities"
      /\ replace.pc = "deleted"
      /\ replace.interfered
      /\ membershipCall.op = "add_entity_to_collection"
      /\ membershipCall.collection_id = replace.collection_id
      /\ membershipCall.result = "true"
      /\ NoDuplicates(replace.entity_ids)
      /\ ~membershipCall'.fault)
       => \/ MemberSet(dbMembership', replace.collection_id) = Range(replace.entity_ids)
          \/ MemberSet(dbMembership', replace.collection_id) =
               Range(replace.entity_ids) \cup {membershipCall.entity_id}]_vars

\* C25: initialising the registry after a load that failed or brought no
\* row leaves every collection row of the store with its name, is_favorite
\* and is_default
C25_FailedLoadKeepsStoredRows ==
  [][(/\ lastOp'.op = "collections_on_load"
      /\ lastOp'.arg = "fetched"
      /\ lastOp'.persist # "none")
       => \A i \in DOMAIN dbCollections :
            \E j \in DOMAIN dbCollections' :
              /\ dbCollections'[j].id = dbCollections[i].id
              /\ dbCollections'[j].name = dbCollections[i].name
              /\ dbCollections'[j].is_favorite = dbCollections[i].is_favorite
              /\ dbCollections'[j].is_default = dbCollections[i].is_default]_vars

\* C26: after a default-changing command of the settings view the pointer of
\* the workspace, default_collection_id, is the id of the collection flagged
\* is_default, and is empty when no collection is flagged
C26_DefaultRepresentationsAgree ==
  lastOp.op = "set_default_collection"
    => /\ \A i \in DOMAIN collections :
            collections[i].is_default => default_collection_id = collections[i].id
       /\ DefaultCount(collections) = 0 => default_collection_id = ""

\* the is_default flags of a list of collections, by position
DefaultFlags(colls) == [i \in DOMAIN colls |-> [id |-> colls[i].id, flag |-> colls[i].is_default]]

\* C27: set_default_collection with an id that the registry does not hold
\* changes no is_default flag, in the registry or in the store
C27_UnknownIdKeepsDefault ==
  [][(lastOp'.op = "set_default_collection"
        /\ IndexOfId(collections, lastOp'.arg, 1) = 0)
       => /\ DefaultFlags(collections') = DefaultFlags(collections)
          /\ DefaultFlags(dbCollections') = DefaultFlags(dbCollections)]_vars

\* C28: after _save_entities_to_db(c) has gone through, the membership rows
\* of c in the store are exactly the ids of the cached list of c, the empty
\* list included
C28_BulkSaveMatchesCache ==
  [][(lastOp'.op = "save_entities_to_db" /\ lastOp'.persist = "ok")
       => MemberSet(dbMembership', lastOp'.arg) =
            IdsOf(DictGet(time_series_entities, lastOp'.arg))]_vars

\* the rows of tbl with the id
RowsWithId(tbl, id) == {i \in DOMAIN tbl : tbl[i].id = id}

\* C29: when two callers have upserted the same id, both having found no row
\* for it and no request having failed in transport, neither call raised and
\* the table holds exactly one row for the id, with the data of one of them
C29_ConcurrentUpsertSafe ==
  \A k1, k2 \in CallerIds :
    (/\ k1 # k2
     /\ callers[k1].pc \in {"done", "raised"}
     /\ callers[k2].pc \in {"done", "raised"}
     /\ callers[k1].table = callers[k2].table
     /\ ~callers[k1].existing /\ ~callers[k2].existing
     /\ ~callers[k1].fault /\ ~callers[k2].fault)
      => LET tbl == TableOf(callers[k1].table)
             id == UpsertData(callers[k1].table, k1).id
         IN /\ callers[k1].pc = "done"
            /\ callers[k2].pc = "done"
            /\ Cardinality(RowsWithId(tbl, id)) = 1
            /\ \A i \in RowsWithId(tbl, id) :
                 tbl[i] \in {UpsertData(callers[k1].table, k1),
                             UpsertData(callers[k1].table, k2)}

\* C30: a run of _load_entities_from_db, a gateway call failing part-way
\* included, either leaves the per-collection map, the Site list and the
\* Asset list all as they were, or leaves all three as fetched from the store
C30_LoadAllOrNothing ==
  [][lastOp'.op = "on_load_entity_page"
       => \/ /\ time_series_entities' = time_series_entities
             /\ site_entities' = site_entities
             /\ asset_entities' = asset_entities
          \/ /\ time_series_entities' =
                  entities_by_collection(dbCollections, dbEntities, dbMembership)
             /\ site_entities' = entities_of_type(dbEntities, "Site")
             /\ asset_entities' = entities_of_type(dbEntities, "Asset")]_vars

====
